---- MODULE Spec2Model ----
(***************************************************************************)
(* A model of the DMA-remapping core of hw/i386/intel_iommu.c: the fault   *)
(* recording registers, the second-stage page walk, the context cache and  *)
(* the IOTLB with their invalidation commands, and the queued-invalidation *)
(* interface.                                                              *)
(*                                                                         *)
(* 64-bit register and paging-entry values are modelled as the set of the  *)
(* bit positions that are set (a subset of 0..63): "x & mask" is set       *)
(* intersection, "x | y" is union, and a field is the subset of its bit    *)
(* positions.  This keeps every mask of the code exact although TLC's      *)
(* integers are 32 bits wide.                                              *)
(***************************************************************************)
EXTENDS Integers, FiniteSets, Sequences, TLC

VARIABLES
    \* ---- fault recording (IntelIOMMUState.csr FSTS/FECTL/FRCD, next_frcd_reg)
    frcd,               \* the fault recording registers, index -> [F, sid, fr, is_write, addr]
    frcd_reg_nr,        \* DMAR_FRCD_REG_NR, the number of fault recording registers
    fsts,               \* DMAR_FSTS_REG: [PFO, PPF, IQE, FRI]
    fectl,              \* DMAR_FECTL_REG: [IP, IM]
    next_frcd_reg,      \* s->next_frcd_reg
    dmar_enabled,       \* s->dmar_enabled
    fault_msi,          \* history: the last handler sent the fault-event MSI
    last_op,            \* history: the handler that ran last, with its inputs
    \* ---- one run of vtd_iova_to_slpte() with its entries read one at a time
    walk,               \* the walk state: status, addr, level, reads, writes, slpte
    walk_in,            \* its inputs: iova, is_write, aw, dt, snoop_control, scalable_mode
    walk_out,           \* the IOMMUTLBEntry the translation returns once the walk ended
    walk_last,          \* history: the entry read last and the level it was read at
    walk_hist,          \* history: per entry read, top level first, its R/W bits and
                        \* whether it was readable, free of reserved bits, and a leaf
    \* ---- translation caches and the guest memory they are filled from
    iotlb,              \* s->iotlb: the set of VTDIOTLBEntry, keyed by (sid, pasid, level, gfn)
    cc,                 \* per device: vtd_as->context_cache_entry [gen, ce]
    context_cache_gen,  \* s->context_cache_gen
    gmem,               \* guest memory: [re: root entry, ce: context entries, pt: paging entries]
    xlat_out,           \* history: the last translation [sid, addr, is_write, hit, walked, entry]
    \* ---- queued invalidation
    qi_enabled,         \* s->qi_enabled
    iq_head,            \* s->iq_head
    iq_tail,            \* s->iq_tail
    iq_size,            \* s->iq_size
    iq_last_desc_type,  \* s->iq_last_desc_type
    iqh_reg,            \* DMAR_IQH_REG, the register value
    gsts,               \* DMAR_GSTS_REG: [TES, RTPS, QIES]
    inv_event,          \* DMAR_ICS_REG.IWC and DMAR_IECTL_REG.IP/.IM: [IWC, IP, IM]
    qi_pc,              \* "idle", or "fetch" while vtd_fetch_inv_desc() is in its loop
    aborted,            \* the process hit a failed assertion
    drain,              \* history of the running drain: [start, k, idx] and the last
                        \* descriptor handled: [type, readable, ok]
    \* ---- shadow page table synchronisation of the address space of device 16
    iova_tree,          \* vtd_as->iova_tree: the set of DMAMap [iova, size, translated_addr, perm]
    sync_out,           \* history of the last vtd_page_walk(): its range, notify_unmap, the
                        \* events it sent, and whether it repeated the walk before it
    \* ---- scalable mode: the PASID cache and the first-stage IOTLB
    p_iotlb,            \* s->p_iotlb: the set of entries, keyed by (sid, pasid, level, gfn)
    vtd_pasid_as,       \* s->vtd_pasid_as: the set of VTDPASIDAddressSpace
                        \* [sid, pasid, cache_filled, pe]
    host_bound,         \* the (sid, pasid) pairs attached to a page table on the host
    root_scalable,      \* s->root_scalable
    scalable_mode,      \* s->scalable_mode (device property)
    scalable_modern,    \* s->scalable_modern (device property)
    pasid_tbl,          \* guest memory: the PASID table entries, (sid, pasid) -> entry
    reset_out,          \* history of the last reset, SRTP or TE handler: whether it changed
                        \* the enabled state and what the caches held when it was called
    \* ---- the two locks and the threads that take them
    iommu_lock,         \* s->iommu_lock: the thread that holds it, or 0
    bql,                \* the big QEMU lock (qemu_mutex_lock_iothread()): its holder, or 0
    pc,                 \* per thread: where it is in a translation or a register write
    lock_hist           \* history: a cache was used without s->iommu_lock; a thread
                        \* unlocked s->iommu_lock without holding it

faultVars == <<frcd, frcd_reg_nr, fsts, fectl, next_frcd_reg, fault_msi>>

walkVars == <<walk, walk_in, walk_out, walk_last, walk_hist>>

lockVars == <<iommu_lock, bql, pc, lock_hist>>

cacheVars == <<iotlb, cc, context_cache_gen>>

queueVars == <<qi_enabled, gsts, iq_head, iq_tail, iq_size, iq_last_desc_type, iqh_reg, inv_event,
               qi_pc, aborted, drain>>

extVars == <<iova_tree, sync_out, p_iotlb, vtd_pasid_as, host_bound, root_scalable, scalable_mode,
             scalable_modern, pasid_tbl, reset_out>>

vars == <<faultVars, dmar_enabled, last_op, walkVars, lockVars, cacheVars, gmem, xlat_out, queueVars, extVars>>

\* ------------------------------------------------------------------ bounds

\* the largest number of fault recording registers explored (the device defines one)
MaxFrcdRegNr == 2

\* ------------------------------------------------------------------ inputs

\* PCI source ids (bus << 8 | devfn) of the requesters explored
SourceIds == {16, 17}

\* VTDFaultReason values the fault path is exercised with
FaultReasons == {"VTD_FR_ROOT_ENTRY_P", "VTD_FR_CONTEXT_ENTRY_P", "VTD_FR_CONTEXT_ENTRY_INV",
                 "VTD_FR_ADDR_BEYOND_MGAW", "VTD_FR_WRITE", "VTD_FR_READ",
                 "VTD_FR_PAGING_ENTRY_INV", "VTD_FR_ROOT_TABLE_INV",
                 "VTD_FR_CONTEXT_TABLE_INV", "VTD_FR_INTERRUPT_ADDR",
                 "VTD_FR_ROOT_ENTRY_RSVD", "VTD_FR_PAGING_ENTRY_RSVD",
                 "VTD_FR_CONTEXT_ENTRY_RSVD", "VTD_FR_SM_INTERRUPT_ADDR"}

\* vtd_qualified_faults[]: the faults that FPD in the context entry suppresses
vtd_qualified_faults ==
    [f \in FaultReasons |->
        f \in {"VTD_FR_CONTEXT_ENTRY_P", "VTD_FR_CONTEXT_ENTRY_INV",
               "VTD_FR_ADDR_BEYOND_MGAW", "VTD_FR_WRITE", "VTD_FR_READ",
               "VTD_FR_PAGING_ENTRY_INV", "VTD_FR_INTERRUPT_ADDR",
               "VTD_FR_PAGING_ENTRY_RSVD", "VTD_FR_SM_INTERRUPT_ADDR"}]

\* a test that takes every fault reason for a qualified one
vtd_is_qualified_fault_all(fault) == fault \in FaultReasons

vtd_is_qualified_fault(fault) == vtd_qualified_faults[fault]

\* the content of a fault recording register after vtd_init(): all zero
EmptyFrcd == [F |-> FALSE, sid |-> 0, fr |-> "VTD_FR_RESERVED", is_write |-> FALSE]

\* history record of the handler that ran last; for a fault report, the source
\* id and what the call met (dropped: FPD suppressed it; dup: a register marked
\* F already held this source id; full: every register was marked F; pfo: the
\* overflow flag was set)
NoOp == [op |-> "init", sid |-> 0, dropped |-> FALSE,
         dup |-> FALSE, full |-> FALSE, pfo |-> FALSE, did |-> 0, removed |-> {},
         type |-> "none", pasid |-> 0, error |-> FALSE, failed |-> FALSE, after |-> "none",
         pass1 |-> [as |-> {}, host |-> {}]]

\* ------------------------------------------------------------------ fault recording

\* a register test that never finds the register in use
vtd_is_frcd_set_never(index) == FALSE

\* vtd_is_frcd_set(): the F field of fault recording register index
vtd_is_frcd_set(index) == frcd[index].F

\* a collapse check that only looks at the register under the cursor
vtd_try_collapse_fault_cursor_only(source_id) ==
    frcd[next_frcd_reg].F /\ frcd[next_frcd_reg].sid = source_id

\* vtd_try_collapse_fault(): some register is marked F and holds this source id
vtd_try_collapse_fault(source_id) ==
    \E i \in 0..(frcd_reg_nr - 1) : frcd[i].F /\ frcd[i].sid = source_id

\* vtd_update_fsts_ppf(): PPF is set iff some register has F set
vtd_update_fsts_ppf(regs, status) ==
    [status EXCEPT !.PPF = \E i \in 0..(frcd_reg_nr - 1) : regs[i].F]

\* vtd_record_frcd() followed by vtd_set_frcd_and_update_ppf(): the registers
vtd_record_frcd(index, rec) ==
    [frcd EXCEPT ![index] = [F |-> TRUE, sid |-> rec.sid, fr |-> rec.fr,
                             is_write |-> rec.is_write]]

\* a test that only looks at the pending faults
FaultEventBlocked_ppf_only(pre_fsts) == pre_fsts.PPF

\* vtd_generate_fault_event(): no event while an earlier condition is pending
FaultEventBlocked(pre_fsts) == pre_fsts.PPF \/ pre_fsts.PFO \/ pre_fsts.IQE

\* vtd_generate_fault_event(): the FECTL register it leaves (IP stays set when masked)
vtd_generate_fault_event_fectl(pre_fsts) ==
    IF FaultEventBlocked(pre_fsts) THEN fectl
    ELSE IF fectl.IM THEN [fectl EXCEPT !.IP = TRUE]
    ELSE [fectl EXCEPT !.IP = FALSE]

\* vtd_generate_fault_event(): whether it sends the MSI
vtd_generate_fault_event_msi(pre_fsts) ==
    ~FaultEventBlocked(pre_fsts) /\ ~fectl.IM

\* next_frcd_reg++ with the wrap at DMAR_FRCD_REG_NR
NextFrcdAdvance(index) == IF index + 1 = frcd_reg_nr THEN 0 ELSE index + 1

\* vtd_report_frcd_fault(): log a fault, or drop it (overflow, compression, register in use)
vtd_report_frcd_fault(rec) ==
    IF fsts.PFO
    THEN UNCHANGED <<frcd, fsts, fectl, next_frcd_reg>> /\ fault_msi' = FALSE
    ELSE IF vtd_try_collapse_fault(rec.sid)
    THEN UNCHANGED <<frcd, fsts, fectl, next_frcd_reg>> /\ fault_msi' = FALSE
    ELSE IF vtd_is_frcd_set(next_frcd_reg)
    THEN /\ fsts' = [fsts EXCEPT !.PFO = TRUE]
         /\ UNCHANGED <<frcd, fectl, next_frcd_reg>>
         /\ fault_msi' = FALSE
    ELSE /\ frcd' = vtd_record_frcd(next_frcd_reg, rec)
         /\ next_frcd_reg' = NextFrcdAdvance(next_frcd_reg)
         /\ IF fsts.PPF
            THEN /\ fsts' = vtd_update_fsts_ppf(frcd', fsts)
                 /\ UNCHANGED fectl
                 /\ fault_msi' = FALSE
            ELSE /\ fsts' = vtd_update_fsts_ppf(frcd', [fsts EXCEPT !.FRI = next_frcd_reg])
                 /\ fectl' = vtd_generate_fault_event_fectl(fsts)
                 /\ fault_msi' = vtd_generate_fault_event_msi(fsts)

\* a report that ignores FPD
vtd_report_fault_always(err, is_fpd_set, source_id, is_write) ==
    vtd_report_frcd_fault([sid |-> source_id, fr |-> err, is_write |-> is_write])

\* vtd_report_fault(): a qualified fault is dropped when FPD is set
vtd_report_fault(err, is_fpd_set, source_id, is_write) ==
    IF is_fpd_set /\ vtd_is_qualified_fault(err)
    THEN UNCHANGED <<frcd, fsts, fectl, next_frcd_reg>> /\ fault_msi' = FALSE
    ELSE vtd_report_frcd_fault([sid |-> source_id, fr |-> err, is_write |-> is_write])

\* ------------------------------------------------------------------ 64-bit values

\* the bit positions of a 64-bit word
Word == 0..63

\* bits lo..hi of a word, as a mask (0 <= lo and hi <= 63)
BitRange(lo, hi) == lo..hi

\* (uint64_t)-1
AllOnes == Word

\* x >> n
ShiftRight(x, n) == {b - n : b \in {c \in x : c >= n}}

\* the largest bit position of a non-empty word
TopBit(x) == CHOOSE b \in x : \A c \in x : c <= b

\* unsigned x < y: the highest bit in which they differ is set in y
WordLess(x, y) == \E b \in y \ x : \A c \in x \ y : c < b

\* unsigned x <= y
WordLeq(x, y) == x = y \/ WordLess(x, y)

\* x + y modulo 2^64, by ripple carry from bit b upwards
RECURSIVE WordAddFrom(_, _, _, _)
WordAddFrom(x, y, b, carry) ==
    IF b > 63 THEN {}
    ELSE IF ~carry /\ y \cap (b..63) = {} THEN x \cap (b..63)
    ELSE LET n == (IF b \in x THEN 1 ELSE 0) + (IF b \in y THEN 1 ELSE 0) + (IF carry THEN 1 ELSE 0)
         IN  (IF n % 2 = 1 THEN {b} ELSE {}) \cup WordAddFrom(x, y, b + 1, n >= 2)

WordAdd(x, y) == WordAddFrom(x, y, 0, FALSE)

\* the value of a word that fits TLC's integers (bits below 31 only)
RECURSIVE WordToInt(_)
WordToInt(x) ==
    IF x = {} THEN 0
    ELSE LET b == TopBit(x) IN 2 ^ b + WordToInt(x \ {b})

\* ------------------------------------------------------------------ second-stage paging constants

VTD_PAGE_SHIFT_4K == 12
VTD_SL_LEVEL_BITS == 9
VTD_SL_PT_LEVEL == 1
VTD_SL_PD_LEVEL == 2
VTD_SL_PDP_LEVEL == 3
VTD_SL_PML4_LEVEL == 4
VTD_HOST_AW_39BIT == 39
VTD_HOST_AW_48BIT == 48

\* VTD_SL_R, VTD_SL_W, VTD_SL_PT_PAGE_SIZE_MASK, VTD_SPTE_SNP, VTD_SL_TM as bit positions
VTD_SL_R == 0
VTD_SL_W == 1
VTD_SL_PT_PAGE_SIZE_BIT == 7
VTD_SPTE_SNP_BIT == 11
VTD_SL_TM_BIT == 62

\* VTD_SL_IGN_COM 0xbff0000000000000: bits 52..61 and 63 are ignored
VTD_SL_IGN_COM == BitRange(52, 61) \cup {63}

\* VTD_HAW_MASK(aw): (1 << aw) - 1
VTD_HAW_MASK(aw) == BitRange(0, aw - 1)

\* VTD_SL_PT_BASE_ADDR_MASK(aw): the address field of a paging entry, bits 12..aw-1
VTD_SL_PT_BASE_ADDR_MASK(aw) == BitRange(VTD_PAGE_SHIFT_4K, aw - 1)

\* VTD_INTERRUPT_ADDR_FIRST 0xfee00000 and VTD_INTERRUPT_ADDR_LAST 0xfeefffff
VTD_INTERRUPT_ADDR_FIRST == BitRange(25, 31) \cup BitRange(21, 23)
VTD_INTERRUPT_ADDR_LAST == VTD_INTERRUPT_ADDR_FIRST \cup BitRange(0, 19)

\* vtd_slpt_level_shift(): 12 + (level - 1) * 9
vtd_slpt_level_shift(level) == VTD_PAGE_SHIFT_4K + (level - 1) * VTD_SL_LEVEL_BITS

\* vtd_slpt_level_page_mask(): ~((1 << shift) - 1)
vtd_slpt_level_page_mask(level) == BitRange(vtd_slpt_level_shift(level), 63)

\* vtd_iova_level_offset(): the 9-bit table index of iova at level
vtd_iova_level_offset(iova, level) ==
    WordToInt(ShiftRight(iova, vtd_slpt_level_shift(level)) \cap BitRange(0, VTD_SL_LEVEL_BITS - 1))

\* vtd_get_slpte_addr(): slpte & VTD_SL_PT_BASE_ADDR_MASK(aw)
vtd_get_slpte_addr(slpte, aw) == slpte \cap VTD_SL_PT_BASE_ADDR_MASK(aw)

\* vtd_is_last_slpte(): level 1, or the page-size bit is set
vtd_is_last_slpte(slpte, level) ==
    level = VTD_SL_PT_LEVEL \/ VTD_SL_PT_PAGE_SIZE_BIT \in slpte

\* vtd_init(): vtd_spte_rsvd[level], the reserved bits of a 4K / table entry.
\* snp is s->scalable_mode || s->snoop_control, dt is x86_iommu->dt_supported.
vtd_spte_rsvd(level, aw, dt, snp) ==
    LET high == Word \ (VTD_HAW_MASK(aw) \cup VTD_SL_IGN_COM) IN
    CASE level = 0 -> AllOnes
      [] level = 1 -> (({VTD_SPTE_SNP_BIT} \cup high) \ (IF dt THEN {VTD_SL_TM_BIT} ELSE {}))
                          \ (IF snp THEN {VTD_SPTE_SNP_BIT} ELSE {})
      [] level = 2 -> {VTD_SPTE_SNP_BIT} \cup high
      [] level = 3 -> {VTD_SPTE_SNP_BIT} \cup high
      [] level = 4 -> {VTD_SL_PT_PAGE_SIZE_BIT, VTD_SPTE_SNP_BIT} \cup high

\* vtd_init(): vtd_spte_rsvd_large[level], the reserved bits of a large-page entry
vtd_spte_rsvd_large(level, aw, dt, snp) ==
    LET high == Word \ (VTD_HAW_MASK(aw) \cup VTD_SL_IGN_COM)
        low  == BitRange(VTD_SPTE_SNP_BIT, vtd_slpt_level_shift(level) - 1)
    IN  ((low \cup high) \ (IF dt THEN {VTD_SL_TM_BIT} ELSE {}))
            \ (IF snp THEN {VTD_SPTE_SNP_BIT} ELSE {})

\* vtd_slpte_nonzero_rsvd(): the mask the entry is checked against
SlpteRsvdMask(slpte, level, aw, dt, snp) ==
    IF (level = VTD_SL_PD_LEVEL \/ level = VTD_SL_PDP_LEVEL) /\ VTD_SL_PT_PAGE_SIZE_BIT \in slpte
    THEN vtd_spte_rsvd_large(level, aw, dt, snp)
    ELSE vtd_spte_rsvd(level, aw, dt, snp)

\* the length of vtd_spte_rsvd[] and vtd_spte_rsvd_large[]
VTD_SPTE_RSVD_LEN == 5

\* vtd_slpte_nonzero_rsvd(): its two assertions, assert(level < VTD_SPTE_RSVD_LEN)
\* and assert(level), hold
vtd_slpte_nonzero_rsvd_asserts(level) == level < VTD_SPTE_RSVD_LEN /\ level # 0

\* a reserved-bit check that always uses the 4K mask
vtd_slpte_nonzero_rsvd_smallmask(slpte, level, aw, dt, snp) ==
    slpte \cap vtd_spte_rsvd(level, aw, dt, snp) # {}

\* vtd_slpte_nonzero_rsvd(): slpte & rsvd_mask
vtd_slpte_nonzero_rsvd(slpte, level, aw, dt, snp) ==
    slpte \cap SlpteRsvdMask(slpte, level, aw, dt, snp) # {}

\* ------------------------------------------------------------------ second-stage walk

\* the accesses the walk has found allowed so far: IOMMU_ACCESS_FLAG(reads, writes)
IOMMU_ACCESS_FLAG(reads, writes) ==
    (IF reads THEN {"r"} ELSE {}) \cup (IF writes THEN {"w"} ELSE {})

\* vtd_ce_get_agaw() / vtd_get_iova_agaw() of a legacy context entry walked from level
vtd_get_iova_agaw(level) == 30 + (level - 2) * VTD_SL_LEVEL_BITS

\* MIN(ce_agaw, aw)
MinInt(a, b) == IF a < b THEN a ELSE b

\* vtd_iova_range_check(): no bit of iova at or above min(agaw, aw)
vtd_iova_range_check(iova, level, aw) ==
    iova \cap BitRange(MinInt(vtd_get_iova_agaw(level), aw), 63) = {}

\* vtd_is_level_supported(): SAGAW has 39 bits always and 48 bits when aw_bits >= 48
vtd_is_level_supported(level, aw) ==
    level = VTD_SL_PDP_LEVEL \/ (level = VTD_SL_PML4_LEVEL /\ aw >= VTD_HOST_AW_48BIT)

\* an interrupt-window test that looks at the first byte of the leaf page only
XlatOutsideInterruptRange_start(xlat, level) ==
    WordLess(VTD_INTERRUPT_ADDR_LAST, xlat) \/ WordLess(xlat, VTD_INTERRUPT_ADDR_FIRST)

\* the interrupt-window test at the end of vtd_iova_to_slpte(): the leaf page
\* [xlat, xlat + size - 1] lies entirely outside 0xfee00000..0xfeefffff
XlatOutsideInterruptRange(xlat, level) ==
    LET sizeMinus1 == BitRange(0, vtd_slpt_level_shift(level) - 1)
    IN  \/ WordLess(VTD_INTERRUPT_ADDR_LAST, xlat)
        \/ WordLess(WordAdd(xlat, sizeMinus1), VTD_INTERRUPT_ADDR_FIRST)

\* the walk state of vtd_iova_to_slpte(): its locals and out-parameters
WalkStart(base, level, iova, aw) ==
    [status |-> IF vtd_iova_range_check(iova, level, aw)
                THEN "walking" ELSE "VTD_FR_ADDR_BEYOND_MGAW",
     addr |-> base, level |-> level, top |-> level,
     reads |-> TRUE, writes |-> TRUE, slpte |-> {}]

\* a loop body that tests the reserved bits before the requested access
vtd_iova_to_slpte_step_rsvd_first(w, slpte, is_write, aw, dt, snp, sm) ==
    IF slpte = AllOnes
    THEN [w EXCEPT !.status = IF w.level = w.top THEN "VTD_FR_CONTEXT_ENTRY_INV"
                              ELSE "VTD_FR_PAGING_ENTRY_INV"]
    ELSE LET r == w.reads /\ VTD_SL_R \in slpte
             wr == w.writes /\ VTD_SL_W \in slpte
             seen == [w EXCEPT !.reads = r, !.writes = wr]
         IN  IF ~vtd_slpte_nonzero_rsvd_asserts(w.level)
             THEN [seen EXCEPT !.status = "abort"]
             ELSE IF vtd_slpte_nonzero_rsvd(slpte, w.level, aw, dt, snp)
             THEN [seen EXCEPT !.status = "VTD_FR_PAGING_ENTRY_RSVD"]
             ELSE IF (IF is_write THEN VTD_SL_W ELSE VTD_SL_R) \notin slpte
             THEN [seen EXCEPT !.status = IF is_write THEN "VTD_FR_WRITE" ELSE "VTD_FR_READ"]
             ELSE IF vtd_is_last_slpte(slpte, w.level)
             THEN [seen EXCEPT !.slpte = slpte,
                               !.status = IF XlatOutsideInterruptRange(vtd_get_slpte_addr(slpte, aw), w.level)
                                          THEN "ok"
                                          ELSE IF sm THEN "VTD_FR_SM_INTERRUPT_ADDR"
                                          ELSE "VTD_FR_INTERRUPT_ADDR"]
             ELSE [seen EXCEPT !.addr = vtd_get_slpte_addr(slpte, aw), !.level = w.level - 1]

\* a loop body that returns the rights of the entry just read instead of accumulating them
vtd_iova_to_slpte_step_leaf_perm(w, slpte, is_write, aw, dt, snp, sm) ==
    IF slpte = AllOnes
    THEN [w EXCEPT !.status = IF w.level = w.top THEN "VTD_FR_CONTEXT_ENTRY_INV"
                              ELSE "VTD_FR_PAGING_ENTRY_INV"]
    ELSE LET r == VTD_SL_R \in slpte
             wr == VTD_SL_W \in slpte
             seen == [w EXCEPT !.reads = r, !.writes = wr]
         IN  IF (IF is_write THEN VTD_SL_W ELSE VTD_SL_R) \notin slpte
             THEN [seen EXCEPT !.status = IF is_write THEN "VTD_FR_WRITE" ELSE "VTD_FR_READ"]
             ELSE IF ~vtd_slpte_nonzero_rsvd_asserts(w.level)
             THEN [seen EXCEPT !.status = "abort"]
             ELSE IF vtd_slpte_nonzero_rsvd(slpte, w.level, aw, dt, snp)
             THEN [seen EXCEPT !.status = "VTD_FR_PAGING_ENTRY_RSVD"]
             ELSE IF vtd_is_last_slpte(slpte, w.level)
             THEN [seen EXCEPT !.slpte = slpte,
                               !.status = IF XlatOutsideInterruptRange(vtd_get_slpte_addr(slpte, aw), w.level)
                                          THEN "ok"
                                          ELSE IF sm THEN "VTD_FR_SM_INTERRUPT_ADDR"
                                          ELSE "VTD_FR_INTERRUPT_ADDR"]
             ELSE [seen EXCEPT !.addr = vtd_get_slpte_addr(slpte, aw), !.level = w.level - 1]

\* vtd_iova_to_slpte(): one iteration of the loop on the entry slpte just read
\* at w.addr, followed on the leaf by the interrupt-window test; status "abort"
\* is a failed assertion of vtd_slpte_nonzero_rsvd()
vtd_iova_to_slpte_step(w, slpte, is_write, aw, dt, snp, sm) ==
    IF slpte = AllOnes
    THEN [w EXCEPT !.status = IF w.level = w.top THEN "VTD_FR_CONTEXT_ENTRY_INV"
                              ELSE "VTD_FR_PAGING_ENTRY_INV"]
    ELSE LET r == w.reads /\ VTD_SL_R \in slpte
             wr == w.writes /\ VTD_SL_W \in slpte
             seen == [w EXCEPT !.reads = r, !.writes = wr]
         IN  IF (IF is_write THEN VTD_SL_W ELSE VTD_SL_R) \notin slpte
             THEN [seen EXCEPT !.status = IF is_write THEN "VTD_FR_WRITE" ELSE "VTD_FR_READ"]
             ELSE IF ~vtd_slpte_nonzero_rsvd_asserts(w.level)
             THEN [seen EXCEPT !.status = "abort"]
             ELSE IF vtd_slpte_nonzero_rsvd(slpte, w.level, aw, dt, snp)
             THEN [seen EXCEPT !.status = "VTD_FR_PAGING_ENTRY_RSVD"]
             ELSE IF vtd_is_last_slpte(slpte, w.level)
             THEN [seen EXCEPT !.slpte = slpte,
                               !.status = IF XlatOutsideInterruptRange(vtd_get_slpte_addr(slpte, aw), w.level)
                                          THEN "ok"
                                          ELSE IF sm THEN "VTD_FR_SM_INTERRUPT_ADDR"
                                          ELSE "VTD_FR_INTERRUPT_ADDR"]
             ELSE [seen EXCEPT !.addr = vtd_get_slpte_addr(slpte, aw), !.level = w.level - 1]

\* the IOMMUTLBEntry of a failed translation (label error: of vtd_do_iommu_translate)
ErrorEntry == [ok |-> FALSE, iova |-> {}, translated_addr |-> {}, addr_mask |-> {}, perm |-> {}]

\* an entry that keeps the offset bits of the request
OutEntry_unaligned(addr, slpte, page_mask, access_flags, aw) ==
    [ok |-> TRUE,
     iova |-> addr,
     translated_addr |-> vtd_get_slpte_addr(slpte, aw) \cap page_mask,
     addr_mask |-> Word \ page_mask,
     perm |-> access_flags]

\* the IOMMUTLBEntry built at label out: of vtd_do_iommu_translate()
OutEntry(addr, slpte, page_mask, access_flags, aw) ==
    [ok |-> TRUE,
     iova |-> addr \cap page_mask,
     translated_addr |-> vtd_get_slpte_addr(slpte, aw) \cap page_mask,
     addr_mask |-> Word \ page_mask,
     perm |-> access_flags]

\* ------------------------------------------------------------------ bounds of the caches

\* VTD_CONTEXT_CACHE_GEN_MAX (0xffffffff in the device), scaled down
GenMax == 3

\* VTD_IOTLB_MAX_SIZE (1024 in the device), scaled down
IotlbMaxSize == 3

\* VTD_PASID_IOTLB_MAX_SIZE of s->p_iotlb, scaled down
PiotlbMaxSize == 3

\* ------------------------------------------------------------------ device configuration

\* PCI_NO_PASID: the pasid of a request without one
PCI_NO_PASID == -1

\* VTD_MAMV: the largest address mask of a page-selective invalidation
VTD_MAMV == 18

\* the properties of the device the caches are explored with: s->aw_bits,
\* x86_iommu->dt_supported and pt_supported, s->snoop_control, s->scalable_mode,
\* s->root_scalable
IommuConfig == [aw_bits |-> VTD_HOST_AW_48BIT, dt_supported |-> FALSE, pt_supported |-> TRUE,
                snoop_control |-> FALSE, scalable_mode |-> FALSE, root_scalable |-> FALSE]

\* the devices behind the unit, by source id (bus 0, devfn 0x10 and 0x11)
Devices == {16, 17}

\* ------------------------------------------------------------------ guest memory

\* guest-physical addresses of the paging structures: 0x10000 .. 0x13000 and 0x20000
TableA4 == {16}
TableA3 == {16, 12}
TableA2 == {16, 13}
TableA1 == {16, 13, 12}
TableB4 == {17}

\* a paging entry pointing at a next-level table, read+write
TablePointer(t) == {VTD_SL_R, VTD_SL_W} \cup t

\* 4K leaves: 0x2000 read+write, 0x3000 read+write, 0x5000 read only; and a 2M
\* read+write leaf at 0x40000000
LeafRW2000 == {VTD_SL_R, VTD_SL_W, 13}
LeafRW3000 == {VTD_SL_R, VTD_SL_W, 13, 12}
LeafRO5000 == {VTD_SL_R, 14, 12}
LargeRW == {VTD_SL_R, VTD_SL_W, VTD_SL_PT_PAGE_SIZE_BIT, 30}

\* the cells of the paging structures the guest has written: <<table, index>>.
\* Both root tables share the level-3 table, so 0x1000 and 0x2000 are mapped
\* in both domains.
PtCells == {<<TableA4, 0>>, <<TableB4, 0>>, <<TableA3, 0>>, <<TableA2, 0>>,
            <<TableA1, 1>>, <<TableA1, 2>>}

PtInitial ==
    [c \in PtCells |->
        CASE c = <<TableA4, 0>> -> TablePointer(TableA3)
          [] c = <<TableB4, 0>> -> TablePointer(TableA3)
          [] c = <<TableA3, 0>> -> TablePointer(TableA2)
          [] c = <<TableA2, 0>> -> TablePointer(TableA1)
          [] c = <<TableA1, 1>> -> LeafRW2000
          [] c = <<TableA1, 2>> -> LeafRO5000]

\* the values the guest stores in the cells it rewrites
PtRewrites == {[cell |-> <<TableA1, 1>>, val |-> LeafRW2000],
               [cell |-> <<TableA1, 1>>, val |-> LeafRW3000],
               [cell |-> <<TableA2, 0>>, val |-> TablePointer(TableA1)],
               [cell |-> <<TableA2, 0>>, val |-> LargeRW]}

\* a context entry by its fields: readable (the read of the context table
\* succeeded), P, rsvd (a reserved bit is set), FPD, TT, AW, DID, SLPTPTR
ContextEntry(did, base) ==
    [readable |-> TRUE, P |-> TRUE, rsvd |-> FALSE, FPD |-> FALSE, TT |-> "VTD_CONTEXT_TT_MULTI_LEVEL",
     AW |-> 2, DID |-> did, SLPTPTR |-> base]

\* domain 1 walking from table A4, domain 2 walking from table B4
CeA == ContextEntry(1, TableA4)
CeB == ContextEntry(2, TableB4)

\* the domain ids the guest uses, and one it does not
DomainIds == {1, 2, 3}

\* a present root entry without reserved bits
RootEntryOk == [readable |-> TRUE, P |-> TRUE, rsvd |-> FALSE]

GuestMemory(ce16, ce17, pt) ==
    [re |-> RootEntryOk, ce |-> [d \in Devices |-> IF d = 16 THEN ce16 ELSE ce17], pt |-> pt]

\* vtd_get_slpte(): the entry at index of the table at base; memory the guest
\* never wrote reads as zero
vtd_get_slpte(mem, base, index) ==
    IF <<base, index>> \in DOMAIN mem.pt THEN mem.pt[<<base, index>>] ELSE {}

\* ------------------------------------------------------------------ context entries

\* vtd_ce_get_level(): 2 + AW
vtd_ce_get_level(ce) == 2 + ce.AW

\* vtd_ce_type_check(): the translation type is known and supported
vtd_ce_type_check(ce) ==
    CASE ce.TT = "VTD_CONTEXT_TT_MULTI_LEVEL" -> TRUE
      [] ce.TT = "VTD_CONTEXT_TT_DEV_IOTLB" -> IommuConfig.dt_supported
      [] ce.TT = "VTD_CONTEXT_TT_PASS_THROUGH" -> IommuConfig.pt_supported
      [] OTHER -> FALSE

\* a resolver that tests the reserved bits of an entry before its present bit
vtd_dev_to_context_entry_rsvd_first(mem, sid) ==
    LET re == mem.re
        ce == mem.ce[sid]
        fail(fr, got) == [fr |-> fr, ce |-> ce, fetched |-> got]
    IN  IF ~re.readable THEN fail("VTD_FR_ROOT_TABLE_INV", FALSE)
        ELSE IF re.rsvd THEN fail("VTD_FR_ROOT_ENTRY_RSVD", FALSE)
        ELSE IF ~re.P THEN fail("VTD_FR_ROOT_ENTRY_P", FALSE)
        ELSE IF ~ce.readable THEN fail("VTD_FR_CONTEXT_TABLE_INV", FALSE)
        ELSE IF ce.rsvd THEN fail("VTD_FR_CONTEXT_ENTRY_RSVD", TRUE)
        ELSE IF ~ce.P THEN fail("VTD_FR_CONTEXT_ENTRY_P", TRUE)
        ELSE IF ~vtd_is_level_supported(vtd_ce_get_level(ce), IommuConfig.aw_bits)
        THEN fail("VTD_FR_CONTEXT_ENTRY_INV", TRUE)
        ELSE IF ~vtd_ce_type_check(ce) THEN fail("VTD_FR_CONTEXT_ENTRY_INV", TRUE)
        ELSE fail("ok", TRUE)

\* vtd_dev_to_context_entry() in legacy mode: the fault reason ("ok" for none),
\* the context entry, and whether the entry was fetched at all
vtd_dev_to_context_entry(mem, sid) ==
    LET re == mem.re
        ce == mem.ce[sid]
        fail(fr, got) == [fr |-> fr, ce |-> ce, fetched |-> got]
    IN  IF ~re.readable THEN fail("VTD_FR_ROOT_TABLE_INV", FALSE)
        ELSE IF ~re.P THEN fail("VTD_FR_ROOT_ENTRY_P", FALSE)
        ELSE IF re.rsvd THEN fail("VTD_FR_ROOT_ENTRY_RSVD", FALSE)
        ELSE IF ~ce.readable THEN fail("VTD_FR_CONTEXT_TABLE_INV", FALSE)
        ELSE IF ~ce.P THEN fail("VTD_FR_CONTEXT_ENTRY_P", TRUE)
        ELSE IF ce.rsvd THEN fail("VTD_FR_CONTEXT_ENTRY_RSVD", TRUE)
        ELSE IF ~vtd_is_level_supported(vtd_ce_get_level(ce), IommuConfig.aw_bits)
        THEN fail("VTD_FR_CONTEXT_ENTRY_INV", TRUE)
        ELSE IF ~vtd_ce_type_check(ce) THEN fail("VTD_FR_CONTEXT_ENTRY_INV", TRUE)
        ELSE fail("ok", TRUE)

\* vtd_get_domain_id() in legacy mode
vtd_get_domain_id(ce) == ce.DID

\* vtd_dev_pt_enabled() in legacy mode
vtd_dev_pt_enabled(ce) == ce.TT = "VTD_CONTEXT_TT_PASS_THROUGH"

\* ------------------------------------------------------------------ the IOTLB and the context cache

\* vtd_get_iotlb_gfn(): the page frame of addr at level
vtd_get_iotlb_gfn(addr, level) ==
    ShiftRight(addr \cap vtd_slpt_level_page_mask(level), VTD_PAGE_SHIFT_4K)

\* the entries of tlb stored under key (sid, pasid, level, gfn): at most one
IotlbAt(tlb, sid, pasid, level, gfn) ==
    {e \in tlb : e.sid = sid /\ e.pasid = pasid /\ e.level = level /\ e.gfn = gfn}

\* entry e is stored under the key a request of sid for addr probes at e's level
IotlbCovers(e, sid, pasid, addr) ==
    e.sid = sid /\ e.pasid = pasid /\ e.gfn = vtd_get_iotlb_gfn(addr, e.level)

\* vtd_lookup_iotlb(): probe levels 1, 2, 3 in turn; the set holding the entry
\* found, empty on a miss
vtd_lookup_iotlb(tlb, source_id, pasid, addr) ==
    LET at(level) == IotlbAt(tlb, source_id, pasid, level, vtd_get_iotlb_gfn(addr, level))
    IN  IF at(1) # {} THEN at(1)
        ELSE IF at(2) # {} THEN at(2)
        ELSE at(3)

\* vtd_update_iotlb(): empty the table when it is full, then store (replace) the entry
vtd_update_iotlb(tlb, source_id, domain_id, addr, slpte, access_flags, level, pasid) ==
    LET gfn == vtd_get_iotlb_gfn(addr, level)
        kept == IF Cardinality(tlb) >= IotlbMaxSize THEN {} ELSE tlb
    IN  (kept \ IotlbAt(kept, source_id, pasid, level, gfn))
        \cup {[sid |-> source_id, pasid |-> pasid, level |-> level, gfn |-> gfn,
               domain_id |-> domain_id, pte |-> slpte, access_flags |-> access_flags,
               mask |-> vtd_slpt_level_page_mask(level)]}

\* a global invalidation that forgets to empty the table
vtd_reset_iotlb_keep(tlb) == tlb

\* vtd_reset_iotlb_locked(): g_hash_table_remove_all()
vtd_reset_iotlb(tlb) == {}

\* vtd_iotlb_global_invalidate(): the table it leaves (no notifier is registered,
\* so vtd_iommu_replay_all() has nothing to replay)
vtd_iotlb_global_invalidate(tlb) == vtd_reset_iotlb(tlb)

\* a removal predicate that matches the source id instead of the domain id
vtd_hash_remove_by_domain_sid(entry, domain_id) == entry.sid = domain_id

\* vtd_hash_remove_by_domain()
vtd_hash_remove_by_domain(entry, domain_id) == entry.domain_id = domain_id

\* vtd_iotlb_domain_invalidate(): g_hash_table_foreach_remove() by domain
vtd_iotlb_domain_invalidate(tlb, domain_id) ==
    {e \in tlb : ~vtd_hash_remove_by_domain(e, domain_id)}

\* vtd_hash_remove_by_page(): info.mask is ~((1 << am) - 1)
vtd_hash_remove_by_page(entry, domain_id, addr, am) ==
    LET mask == BitRange(am, 63)
        gfn == ShiftRight(addr, VTD_PAGE_SHIFT_4K) \cap mask
        gfn_tlb == ShiftRight(addr \cap entry.mask, VTD_PAGE_SHIFT_4K)
    IN  /\ entry.domain_id = domain_id
        /\ (entry.gfn \cap mask = gfn \/ entry.gfn = gfn_tlb)

\* vtd_iotlb_page_invalidate(): g_hash_table_foreach_remove() by page
vtd_iotlb_page_invalidate(tlb, domain_id, addr, am) ==
    {e \in tlb : ~vtd_hash_remove_by_page(e, domain_id, addr, am)}

\* vtd_reset_context_cache_locked(): every address space's generation becomes 0
vtd_reset_context_cache(c) == [d \in DOMAIN c |-> [c[d] EXCEPT !.gen = 0]]

\* a generation bump that wraps to 1 without resetting the address spaces
vtd_context_global_invalidate_noreset(gen, c) ==
    IF gen + 1 = GenMax THEN [gen |-> 1, cc |-> c] ELSE [gen |-> gen + 1, cc |-> c]

\* vtd_context_global_invalidate(): bump the generation; at the maximum reset
\* every address space and restart at 1
vtd_context_global_invalidate(gen, c) ==
    IF gen + 1 = GenMax
    THEN [gen |-> 1, cc |-> vtd_reset_context_cache(c)]
    ELSE [gen |-> gen + 1, cc |-> c]

\* devfn & ~mask for the masks 0, 4, 6, 7 of vtd_context_device_invalidate()
DevfnMasked(devfn, func_mask) ==
    LET low == devfn % 8
    IN  (devfn - low) + (CASE func_mask % 4 = 0 -> low
                           [] func_mask % 4 = 1 -> low % 4
                           [] func_mask % 4 = 2 -> low % 2
                           [] func_mask % 4 = 3 -> 0)

\* vtd_context_device_invalidate(): the address spaces on the bus of source_id
\* whose devfn matches under the function mask get generation 0
vtd_context_device_invalidate(c, source_id, func_mask) ==
    [d \in DOMAIN c |->
        IF d \div 256 = source_id \div 256
           /\ DevfnMasked(d % 256, func_mask) = DevfnMasked(source_id % 256, func_mask)
        THEN [c[d] EXCEPT !.gen = 0] ELSE c[d]]

\* vtd_init() / vtd_reset_caches(): empty IOTLB, generation 1, no valid cached context entry
CacheReset ==
    /\ iotlb = {}
    /\ context_cache_gen = 1
    /\ cc = [d \in Devices |-> [gen |-> 0, ce |-> CeA]]

\* ------------------------------------------------------------------ translation

\* vtd_iova_to_slpte() over guest memory: run the loop from walk state w
RECURSIVE vtd_iova_to_slpte(_, _, _, _)
vtd_iova_to_slpte(w, mem, iova, is_write) ==
    IF w.status # "walking" THEN w
    ELSE vtd_iova_to_slpte(
             vtd_iova_to_slpte_step(w, vtd_get_slpte(mem, w.addr, vtd_iova_level_offset(iova, w.level)),
                                    is_write, IommuConfig.aw_bits, IommuConfig.dt_supported,
                                    IommuConfig.scalable_mode \/ IommuConfig.snoop_control,
                                    IommuConfig.scalable_mode),
             mem, iova, is_write)

\* history of a translation: the request, whether the IOTLB hit, where the
\* context entry came from ("none", "cached", "fetched"), whether the page table
\* was walked, the invalidation it followed (global context-cache or
\* domain-selective IOTLB, else "other"), whether that invalidation removed an
\* IOTLB entry covering the request, the entry returned, and the fault reason
\* ("ok" for none) with the is_fpd_set passed to vtd_report_fault()
NoXlat == [sid |-> 0, addr |-> {}, is_write |-> FALSE, hit |-> FALSE, ce_src |-> "none",
           walked |-> FALSE, after |-> "other", removed_key |-> FALSE, entry |-> ErrorEntry,
           fr |-> "ok", fpd |-> FALSE]

\* the context entry a translation uses: the cached one when its generation is
\* current, else the one vtd_dev_to_context_entry() fetches
ContextLookup(sid) ==
    IF cc[sid].gen = context_cache_gen
    THEN [fr |-> "ok", ce |-> cc[sid].ce, fetched |-> TRUE, cached |-> TRUE]
    ELSE [fr |-> vtd_dev_to_context_entry(gmem, sid).fr, ce |-> gmem.ce[sid],
          fetched |-> vtd_dev_to_context_entry(gmem, sid).fetched, cached |-> FALSE]

\* vtd_do_iommu_translate() in legacy mode (no pasid) for the device sid
vtd_do_iommu_translate(sid, addr, is_write) ==
    LET found == vtd_lookup_iotlb(iotlb, sid, PCI_NO_PASID, addr)
        result(hit, walked, entry, fr, fpd) ==
            [sid |-> sid, addr |-> addr, is_write |-> is_write, hit |-> hit,
             ce_src |-> IF hit THEN "none"
                        ELSE IF cc[sid].gen = context_cache_gen THEN "cached" ELSE "fetched",
             walked |-> walked,
             after |-> IF last_op.op \in {"cc_global", "iotlb_domain"} THEN last_op.op ELSE "other",
             removed_key |-> \E e \in last_op.removed : IotlbCovers(e, sid, PCI_NO_PASID, addr),
             entry |-> entry, fr |-> fr, fpd |-> fpd]
    IN
    IF found # {}
    THEN \* IOTLB hit: goto out
         LET e == CHOOSE x \in found : TRUE
         IN  /\ xlat_out' = result(TRUE, FALSE,
                                   OutEntry(addr, e.pte, e.mask, e.access_flags, IommuConfig.aw_bits),
                                   "ok", FALSE)
             /\ UNCHANGED <<cacheVars, faultVars>>
    ELSE LET c == ContextLookup(sid) IN
         IF c.fr # "ok"
         THEN \* is_fpd_set is read from a context entry that may never have been fetched
              /\ \E fpd \in (IF c.fetched THEN {c.ce.FPD} ELSE BOOLEAN) :
                    /\ vtd_report_fault(c.fr, fpd, sid, is_write)
                    /\ xlat_out' = result(FALSE, FALSE, ErrorEntry, c.fr, fpd)
              /\ UNCHANGED <<cacheVars, frcd_reg_nr>>
         ELSE LET cc1 == IF c.cached THEN cc
                         ELSE [cc EXCEPT ![sid] = [gen |-> context_cache_gen, ce |-> c.ce]]
              IN
              IF vtd_dev_pt_enabled(c.ce)
              THEN /\ xlat_out' = result(FALSE, FALSE,
                                         [ok |-> TRUE, iova |-> addr \cap BitRange(VTD_PAGE_SHIFT_4K, 63),
                                          translated_addr |-> addr \cap BitRange(VTD_PAGE_SHIFT_4K, 63),
                                          addr_mask |-> BitRange(0, VTD_PAGE_SHIFT_4K - 1),
                                          perm |-> {"r", "w"}], "ok", FALSE)
                   /\ cc' = cc1
                   /\ UNCHANGED <<iotlb, context_cache_gen, faultVars>>
              ELSE LET w == vtd_iova_to_slpte(
                                WalkStart(c.ce.SLPTPTR, vtd_ce_get_level(c.ce), addr, IommuConfig.aw_bits),
                                gmem, addr, is_write)
                   IN  IF w.status # "ok"
                       THEN /\ vtd_report_fault(w.status, c.ce.FPD, sid, is_write)
                            /\ xlat_out' = result(FALSE, TRUE, ErrorEntry, w.status, c.ce.FPD)
                            /\ cc' = cc1
                            /\ UNCHANGED <<iotlb, context_cache_gen, frcd_reg_nr>>
                       ELSE /\ iotlb' = vtd_update_iotlb(iotlb, sid, vtd_get_domain_id(c.ce), addr, w.slpte,
                                                         IOMMU_ACCESS_FLAG(w.reads, w.writes), w.level,
                                                         PCI_NO_PASID)
                            /\ xlat_out' = result(FALSE, TRUE,
                                                  OutEntry(addr, w.slpte, vtd_slpt_level_page_mask(w.level),
                                                           IOMMU_ACCESS_FLAG(w.reads, w.writes),
                                                           IommuConfig.aw_bits), "ok", FALSE)
                            /\ cc' = cc1
                            /\ UNCHANGED <<context_cache_gen, faultVars>>

\* ------------------------------------------------------------------ fault recording: handlers

\* the faults the translation path is seen to report: reason and access type
FaultInputs == {[fr |-> "VTD_FR_ROOT_ENTRY_P", is_write |-> FALSE],
                [fr |-> "VTD_FR_WRITE", is_write |-> TRUE]}

\* vtd_init(): the fault registers after reset (FECTL is 0x80000000: masked)
FaultReset(n) ==
    /\ frcd_reg_nr = n
    /\ frcd = [i \in 0..(n - 1) |-> EmptyFrcd]
    /\ fsts = [PFO |-> FALSE, PPF |-> FALSE, IQE |-> FALSE, FRI |-> 0]
    /\ fectl = [IP |-> FALSE, IM |-> TRUE]
    /\ next_frcd_reg = 0
    /\ fault_msi = FALSE

\* vtd_report_fault() called by a translation for requester sid
ReportFault(sid, f, fpd) ==
    /\ vtd_report_fault(f.fr, fpd, sid, f.is_write)
    /\ last_op' = [op |-> "report", sid |-> sid,
                   dropped |-> fpd /\ vtd_is_qualified_fault(f.fr),
                   dup |-> \E i \in DOMAIN frcd : frcd[i].F /\ frcd[i].sid = sid,
                   full |-> \A i \in DOMAIN frcd : frcd[i].F,
                   pfo |-> fsts.PFO, did |-> 0, removed |-> {}]
    /\ UNCHANGED frcd_reg_nr

\* vtd_mem_write() of DMAR_FRCD_REG_x_2/_3 with the F bit set: write-1-to-clear,
\* then vtd_update_fsts_ppf()
GuestClearFrcd(i) ==
    /\ i \in DOMAIN frcd
    /\ frcd' = [frcd EXCEPT ![i].F = FALSE]
    /\ fsts' = vtd_update_fsts_ppf(frcd', fsts)
    /\ fault_msi' = FALSE
    /\ last_op' = [NoOp EXCEPT !.op = "clear_frcd"]
    /\ UNCHANGED <<frcd_reg_nr, fectl, next_frcd_reg>>

\* vtd_mem_write() of DMAR_FSTS_REG: PFO and IQE are write-1-to-clear, then
\* vtd_handle_fsts_write() drops a pending interrupt once no status is left
GuestWriteFsts(clear_pfo, clear_iqe) ==
    /\ fsts' = [fsts EXCEPT !.PFO = fsts.PFO /\ ~clear_pfo, !.IQE = fsts.IQE /\ ~clear_iqe]
    /\ fectl' = IF fectl.IP /\ ~(fsts'.PFO \/ fsts'.PPF \/ fsts'.IQE)
                THEN [fectl EXCEPT !.IP = FALSE] ELSE fectl
    /\ fault_msi' = FALSE
    /\ last_op' = [NoOp EXCEPT !.op = "write_fsts"]
    /\ UNCHANGED <<frcd_reg_nr, frcd, next_frcd_reg>>

\* vtd_mem_write() of DMAR_FECTL_REG: IM is writable, then vtd_handle_fectl_write()
\* delivers a pending interrupt when it is unmasked
GuestWriteFectl(im) ==
    /\ fectl' = IF fectl.IP /\ ~im THEN [IP |-> FALSE, IM |-> im]
                ELSE [fectl EXCEPT !.IM = im]
    /\ fault_msi' = (fectl.IP /\ ~im)
    /\ last_op' = [NoOp EXCEPT !.op = "write_fectl"]
    /\ UNCHANGED <<frcd_reg_nr, frcd, fsts, next_frcd_reg>>

\* vtd_handle_inv_queue_error(): set IQE and raise the fault event
vtd_handle_inv_queue_error ==
    /\ fsts' = [fsts EXCEPT !.IQE = TRUE]
    /\ fectl' = vtd_generate_fault_event_fectl(fsts)
    /\ fault_msi' = vtd_generate_fault_event_msi(fsts)
    /\ UNCHANGED <<frcd_reg_nr, frcd, next_frcd_reg>>

\* ------------------------------------------------------------------ queued invalidation

\* the exponent added to QS in the queue size (8 in the device: 2^(QS+8) entries), scaled down
IqSizeShift == 1

\* the QS values the guest writes to DMAR_IQA_REG
QsValues == {0, 1}

\* the largest tail index the guest writes to DMAR_IQT_REG (the field holds 15 bits)
MaxTail == 4

\* descriptor types (inv_desc.lo & VTD_INV_DESC_TYPE)
DescTypes == {"VTD_INV_DESC_CC", "VTD_INV_DESC_IOTLB", "VTD_INV_DESC_DEVICE", "VTD_INV_DESC_IEC",
              "VTD_INV_DESC_WAIT", "VTD_INV_DESC_PIOTLB", "VTD_INV_DESC_PC",
              "VTD_INV_DESC_DEV_PIOTLB", "unknown"}

\* a descriptor as read from guest memory, by the fields the handlers decode:
\* readable (the read succeeded), type, rsvd (a reserved bit of its type is set),
\* g (granularity), did, sid, fm, addr, am, and for a wait descriptor the flags
\* sw, iflag, fn and whether the status write succeeds
Desc(type, g) ==
    [readable |-> TRUE, type |-> type, rsvd |-> FALSE, g |-> g, did |-> 0, sid |-> 0, fm |-> 0,
     addr |-> {}, am |-> 0, sw |-> FALSE, iflag |-> FALSE, fn |-> FALSE, write_ok |-> TRUE]

\* wait descriptors with every combination of the SW, IF and FN flags
WaitDescs ==
    {[Desc("VTD_INV_DESC_WAIT", "none") EXCEPT !.sw = f[1], !.iflag = f[2], !.fn = f[3], !.write_ok = f[4],
                                               !.rsvd = f[5]] :
        f \in {g \in [1..5 -> BOOLEAN] : (g[5] => g[1] /\ g[2] /\ g[4]) /\ (~g[4] => g[1] /\ ~g[3])}}

\* context-cache descriptors: global, domain, device-selective, and a bad granularity
CcDescs ==
    {Desc("VTD_INV_DESC_CC", "global"), Desc("VTD_INV_DESC_CC", "domain"),
     Desc("VTD_INV_DESC_CC", "invalid"),
     [Desc("VTD_INV_DESC_CC", "global") EXCEPT !.rsvd = TRUE]}
    \cup {[Desc("VTD_INV_DESC_CC", "device") EXCEPT !.sid = 16, !.fm = m] : m \in {0, 3}}

\* IOTLB descriptors: global, domain- and page-selective, and a bad granularity
IotlbDescs ==
    {Desc("VTD_INV_DESC_IOTLB", "global"), Desc("VTD_INV_DESC_IOTLB", "invalid"),
     [Desc("VTD_INV_DESC_IOTLB", "global") EXCEPT !.rsvd = TRUE]}
    \cup {[Desc("VTD_INV_DESC_IOTLB", "domain") EXCEPT !.did = d] : d \in DomainIds}
    \cup {[Desc("VTD_INV_DESC_IOTLB", "page") EXCEPT !.did = d, !.addr = {12}, !.am = m] :
             d \in {1, 2}, m \in {0, 9, VTD_MAMV + 1}}

\* the other descriptor types, well formed or with a reserved bit set, and an unknown type
OtherDescs ==
    {[Desc(t, "global") EXCEPT !.rsvd = r] :
        t \in {"VTD_INV_DESC_DEVICE", "VTD_INV_DESC_IEC", "VTD_INV_DESC_PIOTLB", "VTD_INV_DESC_PC",
               "VTD_INV_DESC_DEV_PIOTLB", "unknown"}, r \in BOOLEAN}

\* a descriptor whose read from guest memory fails
UnreadableDesc == [Desc("unknown", "none") EXCEPT !.readable = FALSE]

\* what the guest may have put in a queue slot
QueueDescs == WaitDescs \cup CcDescs \cup IotlbDescs \cup OtherDescs \cup {UnreadableDesc}

\* vtd_generate_completion_event(): set IWC and raise the completion interrupt
\* unless one is pending; IP stays set while the interrupt is masked
vtd_generate_completion_event(ev) ==
    IF ev.IWC THEN ev
    ELSE IF ev.IM THEN [ev EXCEPT !.IWC = TRUE, !.IP = TRUE]
    ELSE [ev EXCEPT !.IWC = TRUE, !.IP = FALSE]

\* the outcome of a descriptor handler: ok (it returned true), abort (an
\* assertion failed), and the state it leaves
DescResult(ok, abort, st) == [ok |-> ok, abort |-> abort, st |-> st]

\* vtd_process_wait_desc(): with SW set the handler asserts that IF is clear
vtd_process_wait_desc(desc, st) ==
    IF desc.rsvd THEN DescResult(FALSE, FALSE, st)
    ELSE IF desc.sw
    THEN IF desc.iflag THEN DescResult(FALSE, TRUE, st)
         ELSE DescResult(desc.write_ok, FALSE, st)
    ELSE IF desc.iflag
    THEN DescResult(TRUE, FALSE, [st EXCEPT !.inv_event = vtd_generate_completion_event(st.inv_event)])
    ELSE IF desc.fn THEN DescResult(TRUE, FALSE, st)
    ELSE DescResult(FALSE, FALSE, st)

\* vtd_process_context_cache_desc()
vtd_process_context_cache_desc(desc, st) ==
    IF desc.rsvd THEN DescResult(FALSE, FALSE, st)
    ELSE IF desc.g \in {"global", "domain"}
    THEN LET r == vtd_context_global_invalidate(st.gen, st.cc)
         IN  DescResult(TRUE, FALSE, [st EXCEPT !.gen = r.gen, !.cc = r.cc])
    ELSE IF desc.g = "device"
    THEN DescResult(TRUE, FALSE,
                    [st EXCEPT !.cc = vtd_context_device_invalidate(st.cc, desc.sid, desc.fm)])
    ELSE DescResult(FALSE, FALSE, st)

\* vtd_process_iotlb_desc()
vtd_process_iotlb_desc(desc, st) ==
    IF desc.rsvd THEN DescResult(FALSE, FALSE, st)
    ELSE IF desc.g = "global"
    THEN DescResult(TRUE, FALSE, [st EXCEPT !.iotlb = vtd_iotlb_global_invalidate(st.iotlb)])
    ELSE IF desc.g = "domain"
    THEN DescResult(TRUE, FALSE, [st EXCEPT !.iotlb = vtd_iotlb_domain_invalidate(st.iotlb, desc.did)])
    ELSE IF desc.g = "page"
    THEN IF desc.am > VTD_MAMV THEN DescResult(FALSE, FALSE, st)
         ELSE DescResult(TRUE, FALSE,
                         [st EXCEPT !.iotlb = vtd_iotlb_page_invalidate(st.iotlb, desc.did, desc.addr, desc.am)])
    ELSE DescResult(FALSE, FALSE, st)

\* vtd_process_inv_desc(): the dispatch on the descriptor type.  In legacy
\* mode the pasid-cache, PASID-based IOTLB, interrupt-entry-cache and device-TLB
\* handlers change none of the state modelled here.
vtd_process_inv_desc(desc, st) ==
    IF ~desc.readable THEN DescResult(FALSE, FALSE, st)
    ELSE CASE desc.type = "VTD_INV_DESC_CC" -> vtd_process_context_cache_desc(desc, st)
           [] desc.type = "VTD_INV_DESC_IOTLB" -> vtd_process_iotlb_desc(desc, st)
           [] desc.type = "VTD_INV_DESC_WAIT" -> vtd_process_wait_desc(desc, st)
           [] desc.type \in {"VTD_INV_DESC_PC", "VTD_INV_DESC_PIOTLB", "VTD_INV_DESC_DEVICE"} ->
                DescResult(~desc.rsvd, FALSE, st)
           [] desc.type \in {"VTD_INV_DESC_IEC", "VTD_INV_DESC_DEV_PIOTLB"} -> DescResult(TRUE, FALSE, st)
           [] OTHER -> DescResult(FALSE, FALSE, st)

\* the shift of the head index in DMAR_IQH_REG for 128-bit descriptors and the
\* width of the register's field ends: VTD_IQH_QH_MASK keeps bits 4..18
VTD_IQH_QH_SHIFT_4 == 4
VTD_IQH_QH_TOP == 19

\* a head register that shows the index unshifted
IqhRegValue_unshifted(head) == head

\* vtd_fetch_inv_desc(): (iq_head << qi_shift) & VTD_IQH_QH_MASK
IqhRegValue(head) == (head * 2 ^ VTD_IQH_QH_SHIFT_4) % 2 ^ VTD_IQH_QH_TOP

\* a last-descriptor type that is rolled back when the handler fails
IqLastDescType_rollback(desc, ok, old) ==
    IF ~desc.readable THEN "VTD_INV_DESC_NONE" ELSE IF ok THEN desc.type ELSE old

\* vtd_process_inv_desc(): s->iq_last_desc_type is written when the descriptor
\* has been read, before it is handled, whatever the handler returns (ok) and
\* whatever the field held (old); a failed read stores VTD_INV_DESC_NONE
IqLastDescType(desc, ok, old) ==
    IF desc.readable THEN desc.type ELSE "VTD_INV_DESC_NONE"

\* a head that advances by two
IqHeadAdvance_skip(head, size) == (head + 2) % size

\* vtd_process_inv_desc(): s->iq_head++ with the wrap at s->iq_size
IqHeadAdvance(head, size) == IF head + 1 = size THEN 0 ELSE head + 1

\* history: no drain has run since the queue was enabled or disabled
NoDrain == [start |-> 0, k |-> 0, idx |-> 0, type |-> "VTD_INV_DESC_NONE", readable |-> FALSE, ok |-> FALSE]

\* vtd_init(): queued invalidation off, head and tail 0, IECTL masked; the
\* status register shows the root table pointer set and translation enabled
\* when translation is enabled
QueueReset ==
    /\ qi_enabled = FALSE
    /\ gsts = [TES |-> dmar_enabled, RTPS |-> dmar_enabled, QIES |-> FALSE]
    /\ iq_head = 0
    /\ iq_tail = 0
    /\ iq_size = 0
    /\ iq_last_desc_type = "VTD_INV_DESC_NONE"
    /\ iqh_reg = 0
    /\ inv_event = [IWC |-> FALSE, IP |-> FALSE, IM |-> TRUE]
    /\ qi_pc = "idle"
    /\ aborted = FALSE
    /\ drain = NoDrain

\* vtd_fetch_inv_desc() is entered: a tail outside the queue is a queue error,
\* otherwise the loop starts (and ends at once when head = tail)
vtd_fetch_inv_desc_enter(tail, size) ==
    IF tail >= size
    THEN /\ vtd_handle_inv_queue_error
         /\ qi_pc' = "idle"
         /\ drain' = NoDrain
    ELSE /\ qi_pc' = IF iq_head = tail THEN "idle" ELSE "fetch"
         /\ drain' = [NoDrain EXCEPT !.start = iq_head]
         /\ UNCHANGED faultVars

\* a disable check that does not look at the last descriptor type
vtd_queued_inv_disable_check_empty == qi_enabled /\ iq_tail = iq_head

\* vtd_queued_inv_disable_check()
vtd_queued_inv_disable_check ==
    qi_enabled /\ iq_tail = iq_head /\ iq_last_desc_type = "VTD_INV_DESC_WAIT"

\* an enable that leaves a tail written earlier for the next tail write
vtd_handle_gcmd_qie_nofetch(en, qs) ==
    /\ qi_pc = "idle" /\ ~aborted
    /\ en = ~qi_enabled
    /\ IF en
       THEN /\ iq_size' = 2 ^ (qs + IqSizeShift)
            /\ qi_enabled' = TRUE
            /\ gsts' = [gsts EXCEPT !.QIES = TRUE]
            /\ drain' = NoDrain
            /\ UNCHANGED <<iq_head, iqh_reg>>
       ELSE /\ IF vtd_queued_inv_disable_check
               THEN /\ iqh_reg' = 0 /\ iq_head' = 0 /\ qi_enabled' = FALSE
                    /\ gsts' = [gsts EXCEPT !.QIES = FALSE]
                    /\ drain' = NoDrain
               ELSE UNCHANGED <<iqh_reg, iq_head, qi_enabled, gsts, drain>>
            /\ UNCHANGED iq_size
    /\ UNCHANGED <<faultVars, qi_pc, iq_tail, iq_last_desc_type, inv_event, aborted, cacheVars>>

\* a disable that leaves the head where the last drain ended
vtd_handle_gcmd_qie_keephead(en, qs) ==
    /\ qi_pc = "idle" /\ ~aborted
    /\ en = ~qi_enabled
    /\ IF en
       THEN /\ iq_size' = 2 ^ (qs + IqSizeShift)
            /\ qi_enabled' = TRUE
            /\ gsts' = [gsts EXCEPT !.QIES = TRUE]
            /\ IF iq_tail # 0 /\ ~fsts.IQE
               THEN vtd_fetch_inv_desc_enter(iq_tail, iq_size')
               ELSE drain' = NoDrain /\ UNCHANGED <<faultVars, qi_pc>>
            /\ UNCHANGED <<iq_head, iqh_reg>>
       ELSE /\ IF vtd_queued_inv_disable_check
               THEN /\ qi_enabled' = FALSE
                    /\ gsts' = [gsts EXCEPT !.QIES = FALSE]
                    /\ drain' = NoDrain
                    /\ UNCHANGED <<iqh_reg, iq_head>>
               ELSE UNCHANGED <<iqh_reg, iq_head, qi_enabled, gsts, drain>>
            /\ UNCHANGED <<iq_size, faultVars, qi_pc>>
    /\ UNCHANGED <<iq_tail, iq_last_desc_type, inv_event, aborted, cacheVars>>

\* vtd_handle_gcmd_qie(): enable (size from QS; a non-zero tail is drained at
\* once) or disable (only with an empty queue whose last descriptor was a wait)
vtd_handle_gcmd_qie(en, qs) ==
    /\ qi_pc = "idle" /\ ~aborted
    /\ en = ~qi_enabled
    /\ IF en
       THEN /\ iq_size' = 2 ^ (qs + IqSizeShift)
            /\ qi_enabled' = TRUE
            /\ gsts' = [gsts EXCEPT !.QIES = TRUE]
            /\ IF iq_tail # 0 /\ ~fsts.IQE
               THEN vtd_fetch_inv_desc_enter(iq_tail, iq_size')
               ELSE drain' = NoDrain /\ UNCHANGED <<faultVars, qi_pc>>
            /\ UNCHANGED <<iq_head, iqh_reg>>
       ELSE /\ IF vtd_queued_inv_disable_check
               THEN /\ iqh_reg' = 0 /\ iq_head' = 0 /\ qi_enabled' = FALSE
                    /\ gsts' = [gsts EXCEPT !.QIES = FALSE]
                    /\ drain' = NoDrain
               ELSE UNCHANGED <<iqh_reg, iq_head, qi_enabled, gsts, drain>>
            /\ UNCHANGED <<iq_size, faultVars, qi_pc>>
    /\ UNCHANGED <<iq_tail, iq_last_desc_type, inv_event, aborted, cacheVars>>

\* a tail write that fetches although the queue error is pending
vtd_handle_iqt_write_anyway(tail) ==
    /\ qi_pc = "idle" /\ ~aborted
    /\ iq_tail' = tail
    /\ IF qi_enabled
       THEN vtd_fetch_inv_desc_enter(tail, iq_size)
       ELSE UNCHANGED <<faultVars, qi_pc, drain>>
    /\ UNCHANGED <<qi_enabled, gsts, iq_head, iq_size, iq_last_desc_type, iqh_reg, inv_event, aborted,
                   cacheVars>>

\* vtd_handle_iqt_write(): the guest moves the tail; with the queue enabled and
\* no queue error pending the descriptors up to it are fetched
vtd_handle_iqt_write(tail) ==
    /\ qi_pc = "idle" /\ ~aborted
    /\ iq_tail' = tail
    /\ IF qi_enabled /\ ~fsts.IQE
       THEN vtd_fetch_inv_desc_enter(tail, iq_size)
       ELSE UNCHANGED <<faultVars, qi_pc, drain>>
    /\ UNCHANGED <<qi_enabled, gsts, iq_head, iq_size, iq_last_desc_type, iqh_reg, inv_event, aborted,
                   cacheVars>>

\* one iteration of the loop of vtd_fetch_inv_desc(): vtd_process_inv_desc()
\* reads the descriptor at the head, which holds desc, and handles it; on
\* success the head advances and DMAR_IQH_REG follows, on failure the queue
\* error is raised and the loop ends
vtd_fetch_inv_desc_step(desc) ==
    /\ qi_pc = "fetch" /\ ~aborted
    /\ LET r == vtd_process_inv_desc(desc, [iotlb |-> iotlb, cc |-> cc, gen |-> context_cache_gen,
                                            inv_event |-> inv_event])
       IN  /\ iq_last_desc_type' = IqLastDescType(desc, r.ok, iq_last_desc_type)
           /\ drain' = [drain EXCEPT !.k = drain.k + 1, !.idx = iq_head, !.type = desc.type,
                                     !.readable = desc.readable, !.ok = r.ok]
           /\ iotlb' = r.st.iotlb
           /\ cc' = r.st.cc
           /\ context_cache_gen' = r.st.gen
           /\ inv_event' = r.st.inv_event
           /\ IF r.abort
              THEN /\ aborted' = TRUE
                   /\ UNCHANGED <<iq_head, iqh_reg, qi_pc, faultVars>>
              ELSE IF r.ok
              THEN /\ iq_head' = IqHeadAdvance(iq_head, iq_size)
                   /\ iqh_reg' = IqhRegValue(iq_head')
                   /\ qi_pc' = IF iq_head' = iq_tail THEN "idle" ELSE "fetch"
                   /\ UNCHANGED <<aborted, faultVars>>
              ELSE /\ vtd_handle_inv_queue_error
                   /\ qi_pc' = "idle"
                   /\ UNCHANGED <<aborted, iq_head, iqh_reg>>
    /\ UNCHANGED <<qi_enabled, gsts, iq_tail, iq_size>>

\* vtd_mem_write() of DMAR_ICS_REG (IWC is write-1-to-clear) and
\* vtd_handle_ics_write(): a pending IP is dropped with IWC clear
GuestWriteIcs ==
    /\ qi_pc = "idle" /\ ~aborted
    /\ inv_event' = [inv_event EXCEPT !.IWC = FALSE, !.IP = FALSE]
    /\ UNCHANGED <<qi_enabled, gsts, iq_head, iq_tail, iq_size, iq_last_desc_type, iqh_reg, qi_pc,
                   aborted, drain>>

\* vtd_mem_write() of DMAR_IECTL_REG and vtd_handle_iectl_write(): unmasking
\* delivers a pending interrupt
GuestWriteIectl(im) ==
    /\ qi_pc = "idle" /\ ~aborted
    /\ inv_event' = [inv_event EXCEPT !.IM = im, !.IP = inv_event.IP /\ im]
    /\ UNCHANGED <<qi_enabled, gsts, iq_head, iq_tail, iq_size, iq_last_desc_type, iqh_reg, qi_pc,
                   aborted, drain>>

\* ------------------------------------------------------------------ register-based invalidation

\* a command the guest writes to DMAR_CCMD_REG or to DMAR_IOTLB_REG (with
\* DMAR_IVA_REG): granularity g, source id and function mask, or domain id,
\* address and address mask
InvCmd(g, sid, fm, did, addr, am) ==
    [g |-> g, sid |-> sid, fm |-> fm, did |-> did, addr |-> addr, am |-> am]

\* vtd_context_cache_invalidate(): the generation and the context caches it leaves
vtd_context_cache_invalidate(cmd, gen, c) ==
    IF cmd.g \in {"global", "domain"} THEN vtd_context_global_invalidate(gen, c)
    ELSE IF cmd.g = "device"
    THEN [gen |-> gen, cc |-> vtd_context_device_invalidate(c, cmd.sid, cmd.fm)]
    ELSE [gen |-> gen, cc |-> c]

\* vtd_iotlb_flush(): the IOTLB it leaves
vtd_iotlb_flush(cmd, tlb) ==
    IF cmd.g = "global" THEN vtd_iotlb_global_invalidate(tlb)
    ELSE IF cmd.g = "domain" THEN vtd_iotlb_domain_invalidate(tlb, cmd.did)
    ELSE IF cmd.g = "page"
    THEN IF cmd.am > VTD_MAMV THEN tlb
         ELSE vtd_iotlb_page_invalidate(tlb, cmd.did, cmd.addr, cmd.am)
    ELSE tlb

\* history: the invalidation a command or descriptor asked for, with the
\* domain id and the IOTLB entries it removed
InvOp(kind, g, did, am, before, after) ==
    [NoOp EXCEPT !.op = IF kind = "cc"
                        THEN (IF g \in {"global", "domain"} THEN "cc_global"
                              ELSE IF g = "device" THEN "cc_device" ELSE "nop")
                        ELSE (IF g = "global" THEN "iotlb_global"
                              ELSE IF g = "domain" THEN "iotlb_domain"
                              ELSE IF g = "page" /\ am <= VTD_MAMV THEN "iotlb_page" ELSE "nop"),
                 !.did = did, !.removed = before \ after]

\* vtd_handle_ccmd_write() with ICC set: refused while queued invalidation is on
vtd_handle_ccmd_write(cmd) ==
    /\ qi_pc = "idle" /\ ~aborted
    /\ IF qi_enabled
       THEN /\ UNCHANGED cacheVars
            /\ last_op' = [NoOp EXCEPT !.op = "nop"]
       ELSE LET r == vtd_context_cache_invalidate(cmd, context_cache_gen, cc)
            IN  /\ context_cache_gen' = r.gen
                /\ cc' = r.cc
                /\ iotlb' = iotlb
                /\ last_op' = InvOp("cc", cmd.g, 0, 0, {}, {})
    /\ xlat_out' = NoXlat
    /\ UNCHANGED <<faultVars, dmar_enabled, extVars, walkVars, lockVars, gmem, queueVars>>

\* vtd_handle_iotlb_write() with IVT set: refused while queued invalidation is on
vtd_handle_iotlb_write(cmd) ==
    /\ qi_pc = "idle" /\ ~aborted
    /\ IF qi_enabled
       THEN /\ UNCHANGED cacheVars
            /\ last_op' = [NoOp EXCEPT !.op = "nop"]
       ELSE /\ iotlb' = vtd_iotlb_flush(cmd, iotlb)
            /\ last_op' = InvOp("iotlb", cmd.g, cmd.did, cmd.am, iotlb, iotlb')
            /\ UNCHANGED <<cc, context_cache_gen>>
    /\ xlat_out' = NoXlat
    /\ UNCHANGED <<faultVars, dmar_enabled, extVars, walkVars, lockVars, gmem, queueVars>>

\* the guest stores a paging entry
GuestWritePt(cell, val) ==
    /\ qi_pc = "idle" /\ ~aborted
    /\ gmem' = [gmem EXCEPT !.pt[cell] = val]
    /\ last_op' = [NoOp EXCEPT !.op = "guest_write"]
    /\ xlat_out' = NoXlat
    /\ UNCHANGED <<faultVars, dmar_enabled, extVars, walkVars, lockVars, cacheVars, queueVars>>

\* the guest stores the context entry of device sid
GuestWriteCe(sid, ce) ==
    /\ qi_pc = "idle" /\ ~aborted
    /\ gmem' = [gmem EXCEPT !.ce[sid] = ce]
    /\ last_op' = [NoOp EXCEPT !.op = "guest_write"]
    /\ xlat_out' = NoXlat
    /\ UNCHANGED <<faultVars, dmar_enabled, extVars, walkVars, lockVars, cacheVars, queueVars>>

\* a device issues a DMA request: vtd_iommu_translate() with DMA remapping
\* enabled calls vtd_do_iommu_translate()
Translate(sid, addr, is_write) ==
    /\ qi_pc = "idle" /\ ~aborted
    /\ dmar_enabled
    /\ vtd_do_iommu_translate(sid, addr, is_write)
    /\ last_op' = [NoOp EXCEPT !.op = "translate"]
    /\ UNCHANGED <<dmar_enabled, extVars, walkVars, lockVars, gmem, queueVars>>

\* ------------------------------------------------------------------ the walk, entry by entry

\* the table the walked context entry points at (SLPTPTR)
WalkBase == {14}

\* untranslated addresses walked: 0x1020, and 2^40 (beyond a 39-bit width)
WalkIovas == {{12, 5}, {40}}

\* (aw_bits, top level) pairs that pass vtd_is_level_supported()
WalkConfigs == {c \in [aw : {VTD_HOST_AW_39BIT, VTD_HOST_AW_48BIT},
                       level : {VTD_SL_PDP_LEVEL, VTD_SL_PML4_LEVEL}] :
                    vtd_is_level_supported(c.level, c.aw)}

\* device options: x86_iommu->dt_supported, s->snoop_control, s->scalable_mode
WalkModes == {[dt |-> FALSE, snoop_control |-> FALSE, scalable_mode |-> FALSE],
              [dt |-> TRUE, snoop_control |-> FALSE, scalable_mode |-> FALSE],
              [dt |-> FALSE, snoop_control |-> TRUE, scalable_mode |-> FALSE],
              [dt |-> FALSE, snoop_control |-> FALSE, scalable_mode |-> TRUE]}

WalkInputs == {[iova |-> i, is_write |-> w, aw |-> c.aw, level |-> c.level,
                dt |-> m.dt, snoop_control |-> m.snoop_control,
                scalable_mode |-> m.scalable_mode] :
                  i \in WalkIovas, w \in BOOLEAN, c \in WalkConfigs, m \in WalkModes}

\* frame addresses found in entries: 0x40000000, 0xfee00000 (the interrupt
\* window) and 0xc0000000 (a 1G page there covers the window)
SlpteAddrs == {{30}, VTD_INTERRUPT_ADDR_FIRST, {30, 31}}

\* one further bit set in an entry: ignored bits (2, 52), SNP (11), address bits
\* that are reserved in a large page (12, 29), bits above the width (47, 51), TM (62)
SlpteExtraBits == {2, 11, 12, 29, 47, 51, 52, 62}

\* the entries guest memory may hold at a walked offset: any R/W and page-size
\* bits with a frame address, the same with one further bit, zero, and a failed
\* read (all ones)
SlpteChoices ==
    {f \cup ps \cup a : f \in SUBSET {VTD_SL_R, VTD_SL_W},
                        ps \in {{}, {VTD_SL_PT_PAGE_SIZE_BIT}}, a \in SlpteAddrs}
    \cup {f \cup ps \cup {30} \cup {b} : f \in SUBSET {VTD_SL_R, VTD_SL_W},
                        ps \in {{}, {VTD_SL_PT_PAGE_SIZE_BIT}}, b \in SlpteExtraBits}
    \cup {{}, AllOnes}

NoRead == [slpte |-> {}, level |-> 0]

\* the threads: 1 and 2
Threads == {1, 2}

\* no thread holds a lock or is inside the device
LocksFree ==
    /\ iommu_lock = 0
    /\ bql = 0
    /\ pc = [t \in Threads |-> "idle"]
    /\ lock_hist = [unlocked_access |-> FALSE, bad_unlock |-> FALSE]

\* a walk that has not started: the state of the walk variables in the other specifications
WalkQuiet ==
    /\ walk = [WalkStart(WalkBase, VTD_SL_PDP_LEVEL, {}, VTD_HOST_AW_39BIT) EXCEPT !.status = "idle"]
    /\ walk_in = [iova |-> {}, is_write |-> FALSE, aw |-> VTD_HOST_AW_39BIT,
                  level |-> VTD_SL_PDP_LEVEL, dt |-> FALSE, snoop_control |-> FALSE,
                  scalable_mode |-> FALSE]
    /\ walk_out = ErrorEntry
    /\ walk_last = NoRead
    /\ walk_hist = <<>>

\* the entry vtd_do_iommu_translate() returns for a walk that has ended
WalkResult(w, in) ==
    IF w.status = "ok"
    THEN OutEntry(in.iova, w.slpte, vtd_slpt_level_page_mask(w.level),
                  IOMMU_ACCESS_FLAG(w.reads, w.writes), in.aw)
    ELSE ErrorEntry

\* the walk state and entry once vtd_iova_to_slpte() has checked the range of in.iova
WalkBegin(in) ==
    /\ walk' = WalkStart(WalkBase, in.level, in.iova, in.aw)
    /\ walk_in' = in
    /\ walk_out' = WalkResult(walk', in)
    /\ walk_last' = NoRead
    /\ walk_hist' = <<>>
    /\ UNCHANGED lockVars

\* one iteration of the walk loop: vtd_get_slpte() returns slpte
WalkRead(slpte) ==
    /\ walk.status = "walking"
    /\ walk' = vtd_iova_to_slpte_step(walk, slpte, walk_in.is_write, walk_in.aw, walk_in.dt,
                                      walk_in.scalable_mode \/ walk_in.snoop_control,
                                      walk_in.scalable_mode)
    /\ walk_last' = [slpte |-> slpte, level |-> walk.level]
    /\ walk_hist' = Append(walk_hist,
                           [rw |-> slpte \cap {VTD_SL_R, VTD_SL_W},
                            readable |-> slpte # AllOnes,
                            rsvd |-> slpte \cap SlpteRsvdMask(slpte, walk.level, walk_in.aw, walk_in.dt,
                                            walk_in.scalable_mode \/ walk_in.snoop_control) # {},
                            leaf |-> walk.level = VTD_SL_PT_LEVEL \/ VTD_SL_PT_PAGE_SIZE_BIT \in slpte])
    /\ walk_out' = WalkResult(walk', walk_in)
    /\ UNCHANGED <<walk_in, lockVars>>

\* vtd_iova_to_slpte() is entered for the request in
WalkCall(in) ==
    /\ walk.status = "idle"
    /\ WalkBegin(in)

\* the translation has returned its entry to the caller
WalkReturn ==
    /\ walk.status \notin {"idle", "walking"}
    /\ walk' = [WalkStart(WalkBase, VTD_SL_PDP_LEVEL, {}, VTD_HOST_AW_39BIT) EXCEPT !.status = "idle"]
    /\ walk_in' = [iova |-> {}, is_write |-> FALSE, aw |-> VTD_HOST_AW_39BIT,
                   level |-> VTD_SL_PDP_LEVEL, dt |-> FALSE, snoop_control |-> FALSE,
                   scalable_mode |-> FALSE]
    /\ walk_out' = ErrorEntry
    /\ walk_last' = NoRead
    /\ walk_hist' = <<>>
    /\ UNCHANGED lockVars

\* ------------------------------------------------------------------ the walk under a scalable-mode PASID entry

\* VTD_PE_GET_LEVEL(): 2 + the AW field of the PASID entry
VTD_PE_GET_LEVEL(pe) == 2 + pe.AW

\* vtd_pe_get_flpt_level(): 4 + the FLPM field
vtd_pe_get_flpt_level(pe) == 4 + pe.FLPM

\* vtd_pe_type_check()
vtd_pe_type_check(pt_supported, pe) ==
    CASE pe.pgtt \in {"VTD_SM_PASID_ENTRY_FLT", "VTD_SM_PASID_ENTRY_SLT", "VTD_SM_PASID_ENTRY_NESTED"} -> TRUE
      [] pe.pgtt = "VTD_SM_PASID_ENTRY_PT" -> pt_supported
      [] OTHER -> FALSE

\* vtd_get_pe_in_pasid_leaf_table(): the fault reason, or "ok"
vtd_get_pe_in_pasid_leaf_table(pe, aw, pt_supported) ==
    IF ~pe.readable THEN "VTD_FR_PASID_TABLE_ACCESS_ERR"
    ELSE IF ~vtd_pe_type_check(pt_supported, pe) THEN "VTD_FR_PASID_TABLE_ENTRY_INV"
    ELSE IF pe.pgtt = "VTD_SM_PASID_ENTRY_SLT" /\ ~vtd_is_level_supported(VTD_PE_GET_LEVEL(pe), aw)
    THEN "VTD_FR_PASID_TABLE_ENTRY_INV"
    ELSE IF pe.pgtt = "VTD_SM_PASID_ENTRY_FLT" /\ vtd_pe_get_flpt_level(pe) # 4
    THEN "VTD_FR_PASID_TABLE_ENTRY_INV"
    ELSE "ok"

\* vtd_get_pe_from_pasid_table() under a present directory entry
vtd_get_pe_from_pasid_table(pe, aw, pt_supported) ==
    IF vtd_get_pe_in_pasid_leaf_table(pe, aw, pt_supported) # "ok"
    THEN vtd_get_pe_in_pasid_leaf_table(pe, aw, pt_supported)
    ELSE IF ~pe.P THEN "VTD_FR_PASID_ENTRY_P"
    ELSE "ok"

\* vtd_ce_rid2pasid_check(): vtd_ce_get_rid2pasid_entry() of the PASID entry pe
\* that the rid2pasid field of the context entry names
vtd_ce_rid2pasid_check(pe) ==
    vtd_get_pe_from_pasid_table(pe, IommuConfig.aw_bits, IommuConfig.pt_supported)

\* vtd_dev_to_context_entry() under a scalable root table: the level and the
\* translation type are not looked at, the rid2pasid entry is
vtd_dev_to_context_entry_sm(mem, sid, pe) ==
    LET re == mem.re
        ce == mem.ce[sid]
    IN  IF ~re.readable THEN "VTD_FR_ROOT_TABLE_INV"
        ELSE IF ~re.P THEN "VTD_FR_ROOT_ENTRY_P"
        ELSE IF re.rsvd THEN "VTD_FR_ROOT_ENTRY_RSVD"
        ELSE IF ~ce.readable THEN "VTD_FR_CONTEXT_TABLE_INV"
        ELSE IF ~ce.P THEN "VTD_FR_CONTEXT_ENTRY_P"
        ELSE IF ce.rsvd THEN "VTD_FR_CONTEXT_ENTRY_RSVD"
        ELSE vtd_ce_rid2pasid_check(pe)

\* a caller resolves the context entry of device sid, whose rid2pasid entry in
\* guest memory is pe: vtd_dev_to_context_entry() returns the fault reason and
\* writes nothing but the caller's copy of the entry
Resolve(sid, pe) ==
    /\ qi_pc = "idle" /\ ~aborted
    /\ xlat_out' = [NoXlat EXCEPT !.sid = sid,
                                  !.fr = IF root_scalable THEN vtd_dev_to_context_entry_sm(gmem, sid, pe)
                                         ELSE vtd_dev_to_context_entry(gmem, sid).fr]
    /\ last_op' = [NoOp EXCEPT !.op = "resolve", !.sid = sid]
    /\ UNCHANGED <<faultVars, dmar_enabled, walkVars, lockVars, cacheVars, gmem, queueVars, extVars>>

\* vtd_iommu_translate() under a scalable root table for a device whose
\* context entry is present and whose rid2pasid entry is pe: a PASID entry the
\* resolver refuses ends the translation; a first-stage entry goes to
\* vtd_do_iommu_fl_translate() and a pass-through entry returns the identity,
\* neither walks the second stage; any other entry enters vtd_iova_to_slpte()
\* at the level of its AW field
SmTranslate(pe, in) ==
    LET fr == vtd_get_pe_from_pasid_table(pe, in.aw, IommuConfig.pt_supported)
    IN  /\ walk.status = "idle" /\ ~aborted
        /\ IF fr # "ok"
           THEN /\ last_op' = [NoOp EXCEPT !.op = "pasid_fault"]
                /\ UNCHANGED <<walkVars, lockVars>>
           ELSE IF pe.pgtt \in {"VTD_SM_PASID_ENTRY_FLT", "VTD_SM_PASID_ENTRY_PT"}
           THEN /\ last_op' = [NoOp EXCEPT !.op = "no_second_stage"]
                /\ UNCHANGED <<walkVars, lockVars>>
           ELSE /\ last_op' = [NoOp EXCEPT !.op = "sm_walk"]
                /\ WalkBegin([in EXCEPT !.level = VTD_PE_GET_LEVEL(pe)])
        /\ UNCHANGED <<faultVars, dmar_enabled, extVars, cacheVars, gmem, xlat_out, queueVars>>

\* one iteration of the walk loop under a PASID entry: vtd_get_slpte() returns
\* slpte; a failed assertion ends the process
SmWalkRead(slpte) ==
    /\ walk.status = "walking" /\ ~aborted
    /\ walk' = vtd_iova_to_slpte_step(walk, slpte, walk_in.is_write, walk_in.aw, walk_in.dt,
                                      walk_in.scalable_mode \/ walk_in.snoop_control,
                                      walk_in.scalable_mode)
    /\ walk_last' = [slpte |-> slpte, level |-> walk.level]
    /\ walk_hist' = Append(walk_hist,
                           [rw |-> slpte \cap {VTD_SL_R, VTD_SL_W},
                            readable |-> slpte # AllOnes,
                            rsvd |-> /\ vtd_slpte_nonzero_rsvd_asserts(walk.level)
                                     /\ vtd_slpte_nonzero_rsvd(slpte, walk.level, walk_in.aw, walk_in.dt,
                                            walk_in.scalable_mode \/ walk_in.snoop_control),
                            leaf |-> vtd_is_last_slpte(slpte, walk.level)])
    /\ walk_out' = WalkResult(walk', walk_in)
    /\ aborted' = (walk'.status = "abort")
    /\ last_op' = [NoOp EXCEPT !.op = "sm_read"]
    /\ UNCHANGED <<walk_in, faultVars, dmar_enabled, extVars, cacheVars, gmem, xlat_out, qi_enabled, gsts,
                   iq_head, iq_tail, iq_size, iq_last_desc_type, iqh_reg, inv_event, qi_pc, drain,
                   lockVars>>

\* ------------------------------------------------------------------ shadow page table synchronisation

\* two DMAMap ranges overlap; size is the length of the range minus one
DMAMapOverlap(m, t) ==
    /\ ~WordLess(WordAdd(m.iova, m.size), t.iova)
    /\ ~WordLess(WordAdd(t.iova, t.size), m.iova)

\* iova_tree_find(): the mappings that overlap map; the tree returns one of them
iova_tree_find(tree, map) == {m \in tree : DMAMapOverlap(m, map)}

\* iova_tree_insert(): refused when the range overlaps a mapping of the tree
iova_tree_insert(tree, map) == IF iova_tree_find(tree, map) # {} THEN tree ELSE tree \cup {map}

\* iova_tree_remove(): drops every mapping that overlaps map
iova_tree_remove(tree, map) == tree \ iova_tree_find(tree, map)

\* history of a page walk: no walk yet. before holds the event types of the
\* walk before the last one, again the events of walking once more, and, where
\* the notifier is watched, held is what it holds after all events sent so far;
\* visits are the entries a first-stage walk read
NoSync == [start |-> {}, end |-> {}, notify_unmap |-> FALSE, events |-> <<>>,
           repeat |-> FALSE, before |-> {}, again |-> <<>>, watch |-> FALSE, held |-> {},
           visits |-> <<>>]

\* the pages at which the notifier's mappings are observed: 0x1000 and 0x2000
SyncProbes == {{12}, {13}}

\* the notifier of the address space (memory_region_notify_iommu() reaching a
\* MAP/UNMAP notifier such as VFIO's): a MAP event makes its mapping live at
\* every page of its range, an UNMAP event ends whatever is live in its range.
\* held is the set of <<page, mapping>> pairs live at the observed pages.
RECURSIVE NotifierApply(_, _)
NotifierApply(held, events) ==
    IF events = <<>> THEN held
    ELSE LET e == Head(events)
             inside == {p \in SyncProbes : p \ e.addr_mask = e.iova}
         IN  NotifierApply(
                 IF e.type = "IOMMU_NOTIFIER_MAP"
                 THEN held \cup {<<p, [iova |-> e.iova, addr_mask |-> e.addr_mask,
                                      translated_addr |-> e.translated_addr, perm |-> e.perm]>> :
                                   p \in inside}
                 ELSE {h \in held : h[1] \notin inside},
                 Tail(events))

\* a walk step that sends the MAP event of a mapping the tree already holds
vtd_page_walk_one_resend(event, notify_unmap, st) ==
    LET target == [iova |-> event.iova, size |-> event.addr_mask,
                   translated_addr |-> event.translated_addr, perm |-> event.perm]
        mapped == iova_tree_find(st.tree, target)
    IN  IF event.type = "IOMMU_NOTIFIER_UNMAP" /\ ~notify_unmap THEN st
        ELSE IF event.type = "IOMMU_NOTIFIER_MAP"
        THEN IF mapped # {}
             THEN [tree |-> iova_tree_insert(iova_tree_remove(st.tree, target), target),
                   events |-> Append(st.events, event)]
             ELSE [tree |-> iova_tree_insert(st.tree, target), events |-> Append(st.events, event)]
        ELSE IF mapped = {} THEN st
        ELSE [tree |-> iova_tree_remove(st.tree, target), events |-> Append(st.events, event)]

\* vtd_page_walk_one(): compare the event with the tree st.tree of the address
\* space, update the tree and append the events handed to the hook
vtd_page_walk_one(event, notify_unmap, st) ==
    LET target == [iova |-> event.iova, size |-> event.addr_mask,
                   translated_addr |-> event.translated_addr, perm |-> event.perm]
        mapped == iova_tree_find(st.tree, target)
    IN  IF event.type = "IOMMU_NOTIFIER_UNMAP" /\ ~notify_unmap THEN st
        ELSE IF event.type = "IOMMU_NOTIFIER_MAP"
        THEN IF mapped = {target} THEN st
             ELSE IF mapped # {}
             THEN [tree |-> iova_tree_insert(iova_tree_remove(st.tree, target), target),
                   events |-> st.events \o <<[event EXCEPT !.type = "IOMMU_NOTIFIER_UNMAP", !.perm = {}],
                                             event>>]
             ELSE [tree |-> iova_tree_insert(st.tree, target), events |-> Append(st.events, event)]
        ELSE IF mapped = {} THEN st
        ELSE [tree |-> iova_tree_remove(st.tree, target), events |-> Append(st.events, event)]

\* vtd_page_walk_level(): the loop over [iova, end) in the table at addr
RECURSIVE vtd_page_walk_level(_, _, _, _, _, _, _, _, _)
vtd_page_walk_level(mem, addr, iova, end, level, read, write, notify_unmap, st) ==
    IF ~WordLess(iova, end) THEN st
    ELSE LET subpage_mask == vtd_slpt_level_page_mask(level)
             iova_next == WordAdd(iova \cap subpage_mask, {vtd_slpt_level_shift(level)})
             slpte == vtd_get_slpte(mem, addr, vtd_iova_level_offset(iova, level))
             read_cur == read /\ VTD_SL_R \in slpte
             write_cur == write /\ VTD_SL_W \in slpte
             perm == IOMMU_ACCESS_FLAG(read_cur, write_cur)
             event == [type |-> IF perm # {} THEN "IOMMU_NOTIFIER_MAP" ELSE "IOMMU_NOTIFIER_UNMAP",
                       iova |-> iova \cap subpage_mask,
                       translated_addr |-> vtd_get_slpte_addr(slpte, IommuConfig.aw_bits),
                       addr_mask |-> Word \ subpage_mask,
                       perm |-> perm]
             done == IF slpte = AllOnes THEN st
                     ELSE IF vtd_slpte_nonzero_rsvd(slpte, level, IommuConfig.aw_bits,
                                                    IommuConfig.dt_supported,
                                                    IommuConfig.scalable_mode \/ IommuConfig.snoop_control)
                     THEN st
                     ELSE IF ~vtd_is_last_slpte(slpte, level) /\ (read_cur \/ write_cur)
                     THEN vtd_page_walk_level(mem, vtd_get_slpte_addr(slpte, IommuConfig.aw_bits), iova,
                                              IF WordLess(iova_next, end) THEN iova_next ELSE end,
                                              level - 1, read_cur, write_cur, notify_unmap, st)
                     ELSE vtd_page_walk_one(event, notify_unmap, st)
         IN  vtd_page_walk_level(mem, addr, iova_next, end, level, read, write, notify_unmap, done)

\* vtd_page_walk(): the tree and the events of a walk of [start, end) under ce
vtd_page_walk(mem, ce, start, end, notify_unmap, tree) ==
    LET level == vtd_ce_get_level(ce)
        limit == {MinInt(vtd_get_iova_agaw(level), IommuConfig.aw_bits)}
        st == [tree |-> tree, events |-> <<>>]
    IN  IF ~vtd_iova_range_check(start, level, IommuConfig.aw_bits) THEN st
        ELSE vtd_page_walk_level(mem, ce.SLPTPTR, start,
                                 IF vtd_iova_range_check(end, level, IommuConfig.aw_bits) THEN end ELSE limit,
                                 level, TRUE, TRUE, notify_unmap, st)

\* vtd_iotlb_page_invalidate_notify() for the address space of device 16, which
\* has a MAP notifier: vtd_sync_shadow_page_table_range() over [addr, addr + size)
\* when the device's context entry resolves and is of the domain
vtd_iotlb_page_invalidate_notify(domain_id, addr, am) ==
    LET c == vtd_dev_to_context_entry(gmem, 16)
        end == WordAdd(addr, {am + VTD_PAGE_SHIFT_4K})
        r == vtd_page_walk(gmem, c.ce, addr, end, TRUE, iova_tree)
    IN  /\ qi_pc = "idle" /\ ~aborted
        /\ IF c.fr = "ok" /\ vtd_get_domain_id(c.ce) = domain_id
           THEN /\ iova_tree' = r.tree
                /\ sync_out' = [start |-> addr, end |-> end, notify_unmap |-> TRUE,
                                events |-> r.events,
                                repeat |-> last_op.op = "sync" /\ sync_out.start = addr
                                           /\ sync_out.end = end /\ sync_out.notify_unmap,
                                before |-> {sync_out.events[i].type : i \in DOMAIN sync_out.events},
                                watch |-> sync_out.watch,
                                held |-> IF sync_out.watch THEN NotifierApply(sync_out.held, r.events)
                                         ELSE {},
                                again |-> vtd_page_walk(gmem, c.ce, addr, end, TRUE, r.tree).events,
                                visits |-> <<>>]
                /\ last_op' = [NoOp EXCEPT !.op = "sync"]
           ELSE /\ UNCHANGED <<iova_tree, sync_out>>
                /\ last_op' = [NoOp EXCEPT !.op = "nop"]
        /\ UNCHANGED <<faultVars, dmar_enabled, walkVars, lockVars, cacheVars, gmem, xlat_out, queueVars,
                       p_iotlb, vtd_pasid_as, host_bound, root_scalable, scalable_mode,
                       scalable_modern, pasid_tbl, reset_out>>

\* the end of the part of the address space in which the guest has written
\* paging entries: 16K.  Beyond it every entry reads as zero.
ReplayEnd == {14}

\* vtd_address_space_unmap() for the notifier of device 16, whose range is the
\* whole address space: one UNMAP event over [0, 2^aw) goes to the notifier
\* and the tree loses every mapping of the range
vtd_address_space_unmap ==
    LET whole == BitRange(0, IommuConfig.aw_bits - 1)
        event == [type |-> "IOMMU_NOTIFIER_UNMAP", iova |-> {}, translated_addr |-> {},
                  addr_mask |-> whole, perm |-> {}]
    IN  /\ qi_pc = "idle" /\ ~aborted
        /\ iova_tree' = iova_tree_remove(iova_tree, [iova |-> {}, size |-> whole])
        /\ sync_out' = [NoSync EXCEPT !.end = WordAdd(whole, {0}), !.notify_unmap = TRUE,
                                      !.events = <<event>>, !.watch = sync_out.watch,
                                      !.held = IF sync_out.watch
                                               THEN NotifierApply(sync_out.held, <<event>>) ELSE {}]
        /\ last_op' = [NoOp EXCEPT !.op = "unmap_all"]
        /\ UNCHANGED <<faultVars, dmar_enabled, walkVars, lockVars, cacheVars, gmem, xlat_out, queueVars,
                       p_iotlb, vtd_pasid_as, host_bound, root_scalable, scalable_mode,
                       scalable_modern, pasid_tbl, reset_out>>

\* vtd_iommu_replay() for the MAP notifier of device 16: the tree is emptied,
\* and when the context entry resolves vtd_page_walk() over the whole address
\* space, with notify_unmap false, fills it again and hands every mapping to
\* the notifier.  Entries that read as zero give UNMAP events, which this walk
\* drops, so the walk of [0, ReplayEnd) has the events of the whole walk.
vtd_iommu_replay ==
    LET c == vtd_dev_to_context_entry(gmem, 16)
    IN  /\ qi_pc = "idle" /\ ~aborted
        /\ \E emptied \in {iova_tree_remove(iova_tree, [iova |-> {}, size |-> AllOnes])} :
           \E r \in {IF c.fr = "ok" THEN vtd_page_walk(gmem, c.ce, {}, ReplayEnd, FALSE, emptied)
                      ELSE [tree |-> emptied, events |-> <<>>]} :
              /\ iova_tree' = r.tree
              /\ sync_out' = [NoSync EXCEPT !.end = AllOnes, !.events = r.events,
                                            !.watch = sync_out.watch,
                                            !.held = IF sync_out.watch
                                                     THEN NotifierApply(sync_out.held, r.events) ELSE {}]
        /\ last_op' = [NoOp EXCEPT !.op = "replay"]
        /\ UNCHANGED <<faultVars, dmar_enabled, walkVars, lockVars, cacheVars, gmem, xlat_out, queueVars,
                       p_iotlb, vtd_pasid_as, host_bound, root_scalable, scalable_mode,
                       scalable_modern, pasid_tbl, reset_out>>

\* ------------------------------------------------------------------ first-stage range walk

\* bits of a first-stage paging entry: present, read/write, page size
VTD_FL_P == 0
VTD_FL_RW == 1
VTD_FL_PT_PAGE_SIZE_BIT == 7

\* the level of the first-stage page table, the index bits of one level, and
\* the level a PASID entry with FLPM = 0 starts at (4-level paging)
VTD_FL_PT_LEVEL == 1
VTD_FL_LEVEL_BITS == 9
VTD_FL_PML4_LEVEL == 4

\* vtd_flpt_level_shift()
vtd_flpt_level_shift(level) == VTD_PAGE_SHIFT_4K + (level - 1) * VTD_FL_LEVEL_BITS

\* vtd_flpt_level_page_mask()
vtd_flpt_level_page_mask(level) == BitRange(vtd_flpt_level_shift(level), 63)

\* vtd_iova_fl_level_offset(): (iova >> shift) & 0x1ff
vtd_iova_fl_level_offset(iova, level) ==
    WordToInt(ShiftRight(iova, vtd_flpt_level_shift(level)) \cap BitRange(0, VTD_FL_LEVEL_BITS - 1))

\* vtd_get_flpte(): the entry at index of the table at base; memory the guest
\* never wrote reads as zero
vtd_get_flpte(mem, base, index) ==
    IF <<base, index>> \in DOMAIN mem.pt THEN mem.pt[<<base, index>>] ELSE {}

\* vtd_flpte_present()
vtd_flpte_present(flpte) == VTD_FL_P \in flpte

\* vtd_is_last_flpte()
vtd_is_last_flpte(flpte, level) == level = VTD_FL_PT_LEVEL \/ VTD_FL_PT_PAGE_SIZE_BIT \in flpte

\* vtd_get_flpte_addr(): flpte & VTD_FL_PT_BASE_ADDR_MASK(aw)
vtd_get_flpte_addr(flpte, aw) == flpte \cap BitRange(VTD_PAGE_SHIFT_4K, aw - 1)

\* vtd_flt_page_walk_level(): the loop over [iova, end) of the call made with
\* the table frame.addr at level frame.level.  subpage_size and subpage_mask
\* are computed once, before the loop, from the level of the call; addr and
\* level are the function's own variables, which the loop reads at every entry
\* and assigns when it descends (addr = vtd_get_flpte_addr(); level--).  The
\* notifier n covers the whole address space, so that the event's iova and
\* addr_mask are those of the sub-page.  st.visits records every entry read.
RECURSIVE vtd_flt_page_walk_level(_, _, _, _, _, _, _)
vtd_flt_page_walk_level(mem, frame, addr, level, iova, end, st) ==
    IF ~WordLess(iova, end) THEN st
    ELSE LET subpage_mask == vtd_flpt_level_page_mask(frame.level)
             iova_next == WordAdd(iova \cap subpage_mask, {vtd_flpt_level_shift(frame.level)})
             offset == vtd_iova_fl_level_offset(iova, level)
             flpte == vtd_get_flpte(mem, addr, offset)
             seen == [st EXCEPT !.visits = Append(@, [table |-> frame.addr, table_level |-> frame.level,
                                                      addr |-> addr, level |-> level,
                                                      iova |-> iova, offset |-> offset])]
             read == vtd_flpte_present(flpte)
             write == read /\ VTD_FL_RW \in flpte
             descend == flpte # AllOnes /\ ~vtd_is_last_flpte(flpte, level) /\ vtd_flpte_present(flpte)
             addr_next == IF descend THEN vtd_get_flpte_addr(flpte, IommuConfig.aw_bits) ELSE addr
             level_next == IF descend THEN level - 1 ELSE level
             perm == IOMMU_ACCESS_FLAG(read, write)
             event == [type |-> IF perm # {} THEN "IOMMU_NOTIFIER_MAP" ELSE "IOMMU_NOTIFIER_UNMAP",
                       iova |-> iova \cap subpage_mask,
                       translated_addr |-> vtd_get_flpte_addr(flpte, IommuConfig.aw_bits),
                       addr_mask |-> Word \ subpage_mask,
                       perm |-> perm]
             one == vtd_page_walk_one(event, TRUE, [tree |-> seen.tree, events |-> seen.events])
             done == IF flpte = AllOnes THEN seen
                     ELSE IF descend
                     THEN vtd_flt_page_walk_level(mem, [addr |-> addr_next, level |-> level_next],
                                                  addr_next, level_next, iova,
                                                  IF WordLess(iova_next, end) THEN iova_next ELSE end, seen)
                     ELSE [seen EXCEPT !.tree = one.tree, !.events = one.events]
         IN  vtd_flt_page_walk_level(mem, frame, addr_next, level_next, iova_next, end, done)

\* vtd_flt_page_walk(): the walk of [start, end) from the table base of the
\* first-stage PASID entry, whose address width is 48 bits
vtd_flt_page_walk(mem, base, level, start, end, tree) ==
    LET limit == {MinInt(vtd_get_iova_agaw(level), IommuConfig.aw_bits)}
        st == [tree |-> tree, events |-> <<>>, visits |-> <<>>]
    IN  IF ~vtd_iova_range_check(start, level, IommuConfig.aw_bits) THEN st
        ELSE vtd_flt_page_walk_level(mem, [addr |-> base, level |-> level], base, level, start,
                                     IF vtd_iova_range_check(end, level, IommuConfig.aw_bits)
                                     THEN end ELSE limit, st)

\* the first-stage tables of the guest: one table per level from 4 to 2, and
\* two level-1 tables under entries 0 and 1 of the level-2 table
FlTable4 == {20}
FlTable3 == {20, 12}
FlTable2 == {20, 13}
FlTable1a == {20, 13, 12}
FlTable1b == {20, 14}

\* a first-stage entry pointing at a next-level table, read+write
FlPointer(t) == {VTD_FL_P, VTD_FL_RW} \cup t

\* first-stage leaves: 4K pages at 16M (read+write) and 16M + 4K (read only), a
\* 2M read+write page at 32M
FlLeafRW == {VTD_FL_P, VTD_FL_RW, 24}
FlLeafRO == {VTD_FL_P, 24, 12}
FlLargeRW == {VTD_FL_P, VTD_FL_RW, VTD_FL_PT_PAGE_SIZE_BIT, 25}

FlPtCells == {<<FlTable4, 0>>, <<FlTable3, 0>>, <<FlTable2, 0>>, <<FlTable2, 1>>,
              <<FlTable1a, 0>>, <<FlTable1a, 511>>, <<FlTable1b, 0>>}

\* IOVA 2M - 4K and IOVA 2M are mapped by 4K pages of two level-1 tables
FlPtInitial ==
    [c \in FlPtCells |->
        CASE c = <<FlTable4, 0>> -> FlPointer(FlTable3)
          [] c = <<FlTable3, 0>> -> FlPointer(FlTable2)
          [] c = <<FlTable2, 0>> -> FlPointer(FlTable1a)
          [] c = <<FlTable2, 1>> -> FlPointer(FlTable1b)
          [] c = <<FlTable1a, 0>> -> {}
          [] c = <<FlTable1a, 511>> -> FlLeafRW
          [] c = <<FlTable1b, 0>> -> FlLeafRO]

\* the values the guest stores in the first-stage entries it rewrites
FlPtRewrites ==
    {[cell |-> <<FlTable2, 0>>, val |-> v] : v \in {{}, FlPointer(FlTable1a), FlLargeRW}}
    \cup {[cell |-> <<FlTable2, 1>>, val |-> v] : v \in {{}, FlPointer(FlTable1b), FlLargeRW}}
    \cup {[cell |-> <<FlTable1a, 0>>, val |-> v] : v \in {{}, FlLeafRO}}
    \cup {[cell |-> <<FlTable1b, 0>>, val |-> v] : v \in {{}, FlLeafRO}}

\* the ranges walked: the last page below 2M with the first above it, and each alone
FlRanges == {<<BitRange(12, 20), {21, 12}>>, <<BitRange(12, 20), {21}>>, <<{21}, {21, 12}>>}

\* vtd_sync_flt_range() for the address space of device 16, whose PASID entry
\* is first-stage with the table FlTable4: vtd_flt_page_walk() over [addr, end)
vtd_sync_flt_range(addr, end) ==
    LET r == vtd_flt_page_walk(gmem, FlTable4, VTD_FL_PML4_LEVEL, addr, end, iova_tree)
    IN  /\ qi_pc = "idle" /\ ~aborted
        /\ iova_tree' = r.tree
        /\ sync_out' = [NoSync EXCEPT !.start = addr, !.end = end, !.notify_unmap = TRUE,
                                      !.events = r.events, !.visits = r.visits]
        /\ last_op' = [NoOp EXCEPT !.op = "flt_sync"]
        /\ UNCHANGED <<faultVars, dmar_enabled, walkVars, lockVars, cacheVars, gmem, xlat_out, queueVars,
                       p_iotlb, vtd_pasid_as, host_bound, root_scalable, scalable_mode,
                       scalable_modern, pasid_tbl, reset_out>>

\* ------------------------------------------------------------------ scalable mode: PASID cache and first-stage IOTLB

\* the PASIDs of the guest's PASID tables
Pasids == {0, 1}

\* the devices backed by the host IOMMU (s->vtd_idev_list): device 16
HostDevices == {16}

\* PASID entries: not present, first-stage with a table, second-stage
PeNone == [P |-> FALSE, pgtt |-> "none", flptr |-> FALSE, did |-> 0]
PeFlt == [P |-> TRUE, pgtt |-> "VTD_SM_PASID_ENTRY_FLT", flptr |-> TRUE, did |-> 1]
PeSlt == [P |-> TRUE, pgtt |-> "VTD_SM_PASID_ENTRY_SLT", flptr |-> FALSE, did |-> 2]

\* first-stage with a table in domain 2, and an entry of an unknown type
PeFlt2 == [P |-> TRUE, pgtt |-> "VTD_SM_PASID_ENTRY_FLT", flptr |-> TRUE, did |-> 2]
PeInv == [P |-> TRUE, pgtt |-> "unknown", flptr |-> FALSE, did |-> 1]

\* VTDPASIDCacheInfo of a PASID-cache invalidation descriptor
\* invalidation descriptor; walk_type and walk_domain_id are what the walk of
\* step 2 reads as its type and domain, the descriptor's own here
PasidCacheInfo(type, domain_id, pasid) ==
    [type |-> type, domain_id |-> domain_id, pasid |-> pasid, sid |-> 0,
     walk_type |-> type, walk_domain_id |-> domain_id]

\* VTDPASIDCacheInfo of vtd_pasid_cache_devsi() for device sid.  Step 2 walks
\* with a walk_info of which only bus and devfn are assigned: its type and
\* domain_id are whatever the stack held, given here as walk_type and
\* walk_domain_id
PasidCacheDevsi(sid, walk_type, walk_domain_id) ==
    [type |-> "VTD_PASID_CACHE_DEVSI", domain_id |-> 0, pasid |-> 0, sid |-> sid,
     walk_type |-> walk_type, walk_domain_id |-> walk_domain_id]

\* history of the reset handlers: none has run
NoReset == [flipped |-> FALSE, iotlb |-> FALSE, cc |-> FALSE, p_iotlb |-> FALSE, pasid_as |-> {}]

\* vtd_update_scalable_state(): smt is the SMT bit of DMAR_RTADDR_REG
vtd_update_scalable_state(smt) == IF scalable_mode THEN smt ELSE root_scalable

\* vtd_device_attach_pgtbl(): the host refuses all but first-stage with a
\* table and pass-through
vtd_device_attach_pgtbl(pe) ==
    /\ pe.pgtt \in {"VTD_SM_PASID_ENTRY_FLT", "VTD_SM_PASID_ENTRY_PT"}
    /\ pe.pgtt = "VTD_SM_PASID_ENTRY_FLT" => pe.flptr

\* vtd_device_detach_pgtbl(): detaches when the cached entry was attached
vtd_device_detach_pgtbl(e) ==
    e.cache_filled /\ e.pe.pgtt \in {"VTD_SM_PASID_ENTRY_FLT", "VTD_SM_PASID_ENTRY_PT"}

\* vtd_bind_guest_pasid(): whether it succeeds and the host attachments it leaves
vtd_bind_guest_pasid(host, e, pe, op) ==
    IF e.sid \notin HostDevices THEN [ok |-> TRUE, host |-> host]
    ELSE IF op \in {"VTD_PASID_BIND", "VTD_PASID_UPDATE"}
    THEN IF vtd_device_attach_pgtbl(pe)
         THEN [ok |-> TRUE, host |-> host \cup {<<e.sid, e.pasid>>}]
         ELSE [ok |-> FALSE, host |-> host]
    ELSE [ok |-> TRUE,
          host |-> IF vtd_device_detach_pgtbl(e) THEN host \ {<<e.sid, e.pasid>>} ELSE host]

\* vtd_pasid_cache_reset(): vtd_flush_pasid() with VTD_PASID_CACHE_FORCE_RESET
\* unbinds and removes every address space; b is [as, host]
vtd_pasid_cache_reset(b) ==
    [as |-> {}, error |-> FALSE, failed |-> FALSE,
     host |-> {h \in b.host :
                  \A e \in b.as : h \in vtd_bind_guest_pasid(b.host, e, PeNone, "VTD_PASID_UNBIND").host}]

\* vtd_fill_pe_in_cache() for the address space e of b
vtd_fill_pe_in_cache(b, e, pe) ==
    IF e.cache_filled /\ e.pe = pe THEN [ok |-> TRUE, as |-> b.as, host |-> b.host]
    ELSE LET r == vtd_bind_guest_pasid(b.host, e, pe,
                                       IF e.cache_filled THEN "VTD_PASID_UPDATE" ELSE "VTD_PASID_BIND")
         IN  [ok |-> r.ok,
              as |-> IF r.ok THEN (b.as \ {e}) \cup {[e EXCEPT !.cache_filled = TRUE, !.pe = pe]} ELSE b.as,
              host |-> r.host]

\* vtd_add_find_pasid_as(): the address space of (sid, pasid), created if missing
vtd_add_find_pasid_as(as, sid, pasid) ==
    IF \E e \in as : e.sid = sid /\ e.pasid = pasid
    THEN as
    ELSE as \cup {[sid |-> sid, pasid |-> pasid, cache_filled |-> FALSE, pe |-> PeNone]}

\* vtd_dev_get_pe_from_pasid() under a present scalable-mode context entry:
\* whether the guest's entry passes vtd_pe_type_check() and is present
vtd_dev_get_pe_from_pasid(tbl, sid, pasid) ==
    vtd_pe_type_check(TRUE, tbl[<<sid, pasid>>]) /\ tbl[<<sid, pasid>>].P

\* vtd_sm_pasid_table_walk_one() over the PASIDs pasid .. end - 1 of device
\* sid: the address space is found or created before the domain check of the
\* domain- and PASID-selective invalidations
RECURSIVE vtd_sm_pasid_table_walk_one(_, _, _, _, _, _)
vtd_sm_pasid_table_walk_one(b, tbl, sid, pasid, end, info) ==
    IF pasid >= end THEN b
    ELSE LET pe == tbl[<<sid, pasid>>]
             as1 == vtd_add_find_pasid_as(b.as, sid, pasid)
             e == CHOOSE x \in as1 : x.sid = sid /\ x.pasid = pasid
             r == vtd_fill_pe_in_cache([as |-> as1, host |-> b.host], e, pe)
             done == IF ~vtd_dev_get_pe_from_pasid(tbl, sid, pasid) THEN b
                     ELSE IF /\ info.type \in {"VTD_PASID_CACHE_DOMSI", "VTD_PASID_CACHE_PASIDSI"}
                             /\ info.domain_id # pe.did
                     THEN [b EXCEPT !.as = as1]
                     ELSE IF r.ok THEN [b EXCEPT !.as = r.as, !.host = r.host]
                     ELSE [as |-> r.as \ {e}, host |-> r.host, error |-> TRUE, failed |-> TRUE]
         IN  vtd_sm_pasid_table_walk_one(done, tbl, sid, pasid + 1, end, info)

\* vtd_replay_guest_pasid_bindings() that finds no binding
vtd_replay_guest_pasid_bindings_none(b, tbl, idevs, info) == b

\* vtd_replay_guest_pasid_bindings(): for a global, domain-selective or
\* PASID-selective invalidation every device of s->vtd_idev_list, the one
\* PASID of a PASID-selective invalidation, walked with a copy of pc_info whose
\* error flag is copied back; for a device-selective one the device of
\* pc_info alone, walked with walk_info, whose error flag is dropped on
\* return.  The scalable-mode context entries of the devices are present and
\* name the PASID tables tbl of two entries
RECURSIVE vtd_replay_guest_pasid_bindings(_, _, _, _)
vtd_replay_guest_pasid_bindings(b, tbl, idevs, info) ==
    IF info.type = "VTD_PASID_CACHE_DEVSI"
    THEN LET w == vtd_sm_pasid_table_walk_one(b, tbl, info.sid, 0, 2,
                      [info EXCEPT !.type = info.walk_type, !.domain_id = info.walk_domain_id])
         IN  [w EXCEPT !.error = b.error]
    ELSE IF idevs = {} THEN b
    ELSE LET sid == CHOOSE d \in idevs : TRUE
             start == IF info.type = "VTD_PASID_CACHE_PASIDSI" THEN info.pasid ELSE 0
             end == IF info.type = "VTD_PASID_CACHE_PASIDSI" THEN info.pasid + 1 ELSE 2
         IN  vtd_replay_guest_pasid_bindings(
                 vtd_sm_pasid_table_walk_one(b, tbl, sid, start, IF end > 2 THEN 2 ELSE end, info),
                 tbl, idevs \ {sid}, info)

\* vtd_refresh_pasid_bind(): replay only with DMA remapping enabled in modern
\* scalable mode under a scalable root table
vtd_refresh_pasid_bind(b, tbl, en, modern, scalable) ==
    IF ~en THEN b
    ELSE IF ~modern \/ ~scalable THEN b
    ELSE vtd_replay_guest_pasid_bindings(b, tbl, HostDevices,
                                         PasidCacheInfo("VTD_PASID_CACHE_GLOBAL_INV", 0, 0))

\* vtd_flush_pasid() of the address space e for an invalidation other than
\* the forced reset: the scope is taken from the cached entry
vtd_flush_pasid(b, tbl, e, info) ==
    LET did == e.pe.did
        pe == tbl[<<e.sid, e.pasid>>]
        r == vtd_fill_pe_in_cache(b, e, pe)
        u == vtd_bind_guest_pasid(b.host, e, PeNone, "VTD_PASID_UNBIND")
    IN  IF info.type = "VTD_PASID_CACHE_PASIDSI" /\ info.pasid # e.pasid THEN b
        ELSE IF /\ info.type \in {"VTD_PASID_CACHE_PASIDSI", "VTD_PASID_CACHE_DOMSI"}
                /\ info.domain_id # did
        THEN b
        ELSE IF info.type = "VTD_PASID_CACHE_DEVSI" /\ info.sid # e.sid THEN b
        ELSE IF ~vtd_dev_get_pe_from_pasid(tbl, e.sid, e.pasid)
        THEN [as |-> b.as \ {e}, host |-> u.host, error |-> b.error \/ ~u.ok,
              failed |-> b.failed \/ ~u.ok]
        ELSE IF ~r.ok THEN [as |-> b.as \ {e}, host |-> r.host, error |-> TRUE, failed |-> TRUE]
        ELSE [b EXCEPT !.as = r.as, !.host = r.host]

\* g_hash_table_foreach_remove(s->vtd_pasid_as, vtd_flush_pasid, pc_info) over
\* the address spaces todo
RECURSIVE vtd_pasid_cache_sync_step1(_, _, _, _)
vtd_pasid_cache_sync_step1(b, tbl, todo, info) ==
    IF todo = {} THEN b
    ELSE LET e == CHOOSE x \in todo : TRUE
         IN  vtd_pasid_cache_sync_step1(vtd_flush_pasid(b, tbl, e, info), tbl, todo \ {e}, info)

\* the entries of s->p_iotlb that vtd_flush_pasid() leaves: those of the
\* domain and PASID of a flushed address space of an emulated device go
vtd_flush_pasid_piotlb(tlb, as, info) ==
    {t \in tlb :
        ~\E e \in as :
            /\ ~(info.type = "VTD_PASID_CACHE_PASIDSI" /\ info.pasid # e.pasid)
            /\ ~(/\ info.type \in {"VTD_PASID_CACHE_PASIDSI", "VTD_PASID_CACHE_DOMSI"}
                 /\ info.domain_id # e.pe.did)
            /\ ~(info.type = "VTD_PASID_CACHE_DEVSI" /\ info.sid # e.sid)
            /\ e.sid \notin HostDevices
            /\ t.domain_id = e.pe.did /\ t.pasid = e.pasid}

\* vtd_reset_piotlb() keeping the table
vtd_reset_piotlb_keep(tlb) == tlb

\* vtd_reset_piotlb(): g_hash_table_remove_all()
vtd_reset_piotlb(tlb) == {}

\* vtd_get_piotlb_gfn()
vtd_get_piotlb_gfn(addr, level) ==
    ShiftRight(addr \cap vtd_slpt_level_page_mask(level), VTD_PAGE_SHIFT_4K)

\* vtd_lookup_piotlb(): probe levels 1 .. 3
vtd_lookup_piotlb(tlb, pasid, addr, source_id) ==
    LET at(level) == IotlbAt(tlb, source_id, pasid, level, vtd_get_piotlb_gfn(addr, level))
    IN  IF at(1) # {} THEN at(1)
        ELSE IF at(2) # {} THEN at(2)
        ELSE at(3)

\* vtd_update_piotlb() that keeps a full table
vtd_update_piotlb_grow(tlb, pasid, domain_id, addr, flpte, access_flags, level, source_id) ==
    tlb \cup {[sid |-> source_id, pasid |-> pasid, level |-> level,
               gfn |-> vtd_get_piotlb_gfn(addr, level), domain_id |-> domain_id, pte |-> flpte,
               access_flags |-> access_flags, mask |-> vtd_slpt_level_page_mask(level)]}

\* vtd_update_piotlb(): empty the table when it is full, then store (replace) the entry
vtd_update_piotlb(tlb, pasid, domain_id, addr, flpte, access_flags, level, source_id) ==
    LET gfn == vtd_get_piotlb_gfn(addr, level)
        kept == IF Cardinality(tlb) >= PiotlbMaxSize THEN {} ELSE tlb
    IN  (kept \ IotlbAt(kept, source_id, pasid, level, gfn))
        \cup {[sid |-> source_id, pasid |-> pasid, level |-> level, gfn |-> gfn,
               domain_id |-> domain_id, pte |-> flpte, access_flags |-> access_flags,
               mask |-> vtd_slpt_level_page_mask(level)]}

\* vtd_reset_caches() followed by vtd_address_space_refresh_all() and
\* vtd_refresh_pasid_bind(), as every caller does, with s->dmar_enabled = en
\* and s->root_scalable = scalable on return; no address space has a notifier
vtd_reset_caches(en, scalable) ==
    LET b == vtd_refresh_pasid_bind(vtd_pasid_cache_reset([as |-> vtd_pasid_as, host |-> host_bound,
                                                           error |-> FALSE, failed |-> FALSE]),
                                    pasid_tbl, en, scalable_modern, scalable)
    IN  /\ iotlb' = vtd_reset_iotlb(iotlb)
        /\ cc' = vtd_reset_context_cache(cc)
        /\ context_cache_gen' = 1
        /\ p_iotlb' = vtd_reset_piotlb(p_iotlb)
        /\ vtd_pasid_as' = b.as
        /\ host_bound' = b.host

\* what the caches hold when a reset handler is called
ResetHistory(flipped) ==
    [flipped |-> flipped, iotlb |-> iotlb # {},
     cc |-> \E d \in Devices : cc[d].gen = context_cache_gen,
     p_iotlb |-> p_iotlb # {}, pasid_as |-> {<<e.sid, e.pasid>> : e \in vtd_pasid_as}]

\* vtd_handle_gcmd_srtp(): the guest sets the root table pointer; smt is the
\* SMT bit of the DMAR_RTADDR_REG it wrote before
vtd_handle_gcmd_srtp(smt) ==
    /\ qi_pc = "idle" /\ ~aborted
    /\ root_scalable' = vtd_update_scalable_state(smt)
    /\ gsts' = [gsts EXCEPT !.RTPS = TRUE]
    /\ vtd_reset_caches(dmar_enabled, vtd_update_scalable_state(smt))
    /\ reset_out' = ResetHistory(FALSE)
    /\ last_op' = [NoOp EXCEPT !.op = "srtp"]
    /\ xlat_out' = NoXlat
    /\ UNCHANGED <<faultVars, dmar_enabled, walkVars, lockVars, gmem, qi_enabled, iq_head, iq_tail, iq_size,
                   iq_last_desc_type, iqh_reg, inv_event, qi_pc, aborted, drain,
                   iova_tree, sync_out, scalable_mode, scalable_modern, pasid_tbl>>

\* vtd_handle_gcmd_te(): the guest writes the TE bit of DMAR_GCMD_REG
vtd_handle_gcmd_te(en) ==
    /\ qi_pc = "idle" /\ ~aborted
    /\ last_op' = [NoOp EXCEPT !.op = "te"]
    /\ xlat_out' = NoXlat
    /\ reset_out' = ResetHistory(dmar_enabled # en)
    /\ IF dmar_enabled = en
       THEN UNCHANGED <<dmar_enabled, gsts, next_frcd_reg, cacheVars, p_iotlb, vtd_pasid_as, host_bound>>
       ELSE /\ dmar_enabled' = en
            /\ gsts' = [gsts EXCEPT !.TES = en]
            /\ next_frcd_reg' = IF en THEN next_frcd_reg ELSE 0
            /\ vtd_reset_caches(en, root_scalable)
    /\ UNCHANGED <<frcd, frcd_reg_nr, fsts, fectl, fault_msi, walkVars, lockVars, gmem, qi_enabled, iq_head,
                   iq_tail, iq_size, iq_last_desc_type, iqh_reg, inv_event, qi_pc, aborted, drain,
                   iova_tree, sync_out, root_scalable, scalable_mode, scalable_modern, pasid_tbl>>

\* vtd_reset(): vtd_init(), vtd_address_space_refresh_all(), vtd_refresh_pasid_bind()
vtd_reset ==
    /\ qi_pc = "idle" /\ ~aborted
    /\ frcd' = [i \in DOMAIN frcd |-> EmptyFrcd]
    /\ fsts' = [PFO |-> FALSE, PPF |-> FALSE, IQE |-> FALSE, FRI |-> 0]
    /\ fectl' = [IP |-> FALSE, IM |-> TRUE]
    /\ next_frcd_reg' = 0
    /\ fault_msi' = FALSE
    /\ dmar_enabled' = FALSE
    /\ root_scalable' = FALSE
    /\ qi_enabled' = FALSE
    /\ gsts' = [TES |-> FALSE, RTPS |-> FALSE, QIES |-> FALSE]
    /\ iq_head' = 0
    /\ iq_tail' = 0
    /\ iq_size' = 0
    /\ iq_last_desc_type' = "VTD_INV_DESC_NONE"
    /\ iqh_reg' = 0
    /\ inv_event' = [IWC |-> FALSE, IP |-> FALSE, IM |-> TRUE]
    /\ drain' = NoDrain
    /\ vtd_reset_caches(FALSE, FALSE)
    /\ reset_out' = ResetHistory(dmar_enabled)
    /\ last_op' = [NoOp EXCEPT !.op = "reset"]
    /\ xlat_out' = NoXlat
    /\ UNCHANGED <<frcd_reg_nr, walkVars, lockVars, gmem, qi_pc, aborted, iova_tree, sync_out, scalable_mode,
                   scalable_modern, pasid_tbl>>

\* vtd_iommu_translate() of an emulated device under a scalable root table
\* whose rid2pasid entry is first-stage: vtd_do_iommu_fl_translate() looks the
\* address up in s->p_iotlb and on a miss stores the result of the first-stage
\* walk, taken here as a 4K page mapped onto itself
vtd_do_iommu_fl_translate(sid, addr) ==
    LET pe == pasid_tbl[<<sid, 0>>]
    IN  /\ qi_pc = "idle" /\ ~aborted
        /\ dmar_enabled /\ root_scalable
        /\ sid \notin HostDevices
        /\ pe.P /\ pe.pgtt = "VTD_SM_PASID_ENTRY_FLT"
        /\ p_iotlb' = IF vtd_lookup_piotlb(p_iotlb, 0, addr, sid) # {} THEN p_iotlb
                      ELSE vtd_update_piotlb(p_iotlb, 0, pe.did, addr, addr, {"r", "w"},
                                             VTD_SL_PT_LEVEL, sid)
        /\ last_op' = [NoOp EXCEPT !.op = "fl_translate"]
        /\ xlat_out' = NoXlat
        /\ UNCHANGED <<faultVars, dmar_enabled, walkVars, lockVars, cacheVars, gmem, queueVars, iova_tree, sync_out,
                       vtd_pasid_as, host_bound, root_scalable, scalable_mode, scalable_modern,
                       pasid_tbl, reset_out>>

\* the guest stores a PASID table entry
GuestWritePasid(sid, pasid, pe) ==
    /\ qi_pc = "idle" /\ ~aborted
    /\ pasid_tbl' = [pasid_tbl EXCEPT ![<<sid, pasid>>] = pe]
    /\ last_op' = [NoOp EXCEPT !.op = "guest_write"]
    /\ xlat_out' = NoXlat
    /\ UNCHANGED <<faultVars, dmar_enabled, walkVars, lockVars, cacheVars, gmem, queueVars, iova_tree, sync_out,
                   p_iotlb, vtd_pasid_as, host_bound, root_scalable, scalable_mode, scalable_modern,
                   reset_out>>

\* the state of the scalable-mode caches and of the mapping tree after
\* vtd_init() of a device without scalable mode, with empty PASID tables
ExtReset ==
    /\ iova_tree = {}
    /\ sync_out = NoSync
    /\ p_iotlb = {}
    /\ vtd_pasid_as = {}
    /\ host_bound = {}
    /\ root_scalable = FALSE
    /\ scalable_mode = FALSE
    /\ scalable_modern = FALSE
    /\ pasid_tbl = [k \in Devices \X Pasids |-> PeNone]
    /\ reset_out = NoReset

\* ------------------------------------------------------------------ the process-scoped IOTLB

\* the exponents k for which ~((1 << am) - 1), computed in int, can equal the
\* mask of bits k .. 63: am itself below the width of int; from 32 on the shift
\* is undefined, and the builds in use take the count modulo 32 or give 0
\* (a mask with no bit set, written as exponent 64)
ShiftCounts(am) == IF am < 32 THEN {am} ELSE {am % 32, 64}

\* vtd_piotlb_page_invalidate(): g_hash_table_foreach_remove() by page with
\* info.is_piotlb set; k is the exponent of info.mask
vtd_piotlb_page_invalidate(tlb, domain_id, pasid, addr, k) ==
    {e \in tlb : ~(vtd_hash_remove_by_page(e, domain_id, addr, k) /\ e.pasid = pasid)}

\* vtd_iommu_translate() of an emulated device under a scalable root table:
\* the context entry of sid names rid2pasid, the PASID entry of that pasid is
\* first-stage with domain id did, and the guest's first-stage table maps addr
\* onto itself by a page of the given level.  A hit in s->p_iotlb returns the
\* cached entry, a miss stores the result of the walk.
FlTranslate(sid, rid2pasid, did, addr, level) ==
    /\ qi_pc = "idle" /\ ~aborted
    /\ dmar_enabled /\ root_scalable
    /\ sid \notin HostDevices
    /\ p_iotlb' = IF vtd_lookup_piotlb(p_iotlb, rid2pasid, addr, sid) # {} THEN p_iotlb
                  ELSE vtd_update_piotlb(p_iotlb, rid2pasid, did, addr,
                                         addr \cap vtd_slpt_level_page_mask(level), {"r", "w"},
                                         level, sid)
    /\ last_op' = [NoOp EXCEPT !.op = "fl_translate", !.sid = sid, !.removed = p_iotlb \ p_iotlb']
    /\ xlat_out' = NoXlat
    /\ UNCHANGED <<faultVars, dmar_enabled, walkVars, lockVars, cacheVars, gmem, queueVars, iova_tree, sync_out,
                   vtd_pasid_as, host_bound, root_scalable, scalable_mode, scalable_modern,
                   pasid_tbl, reset_out>>

\* vtd_process_piotlb_desc() of a page-selective descriptor without reserved
\* bits: vtd_piotlb_page_invalidate().  No PASID binding is tracked and no
\* notifier is registered, so only s->p_iotlb changes.
vtd_process_piotlb_desc(domain_id, pasid, addr, am) ==
    /\ qi_pc = "idle" /\ ~aborted
    /\ root_scalable
    /\ \E k \in ShiftCounts(am) :
          p_iotlb' = vtd_piotlb_page_invalidate(p_iotlb, domain_id, pasid, addr, k)
    /\ last_op' = [NoOp EXCEPT !.op = "piotlb_page", !.sid = pasid, !.did = domain_id,
                               !.removed = p_iotlb \ p_iotlb']
    /\ xlat_out' = NoXlat
    /\ UNCHANGED <<faultVars, dmar_enabled, walkVars, lockVars, cacheVars, gmem, queueVars, iova_tree, sync_out,
                   vtd_pasid_as, host_bound, root_scalable, scalable_mode, scalable_modern,
                   pasid_tbl, reset_out>>

\* vtd_process_pasid_desc() of a descriptor without reserved bits:
\* vtd_pasid_cache_sync(), step 1 over every address space and step 2 over
\* the devices backed by the host IOMMU
vtd_process_pasid_desc(type, domain_id, pasid) ==
    LET info == PasidCacheInfo(type, domain_id, pasid)
        b0 == [as |-> vtd_pasid_as, host |-> host_bound, error |-> FALSE, failed |-> FALSE]
        b1 == vtd_pasid_cache_sync_step1(b0, pasid_tbl, vtd_pasid_as, info)
        b2 == vtd_replay_guest_pasid_bindings(b1, pasid_tbl, HostDevices, info)
    IN  /\ qi_pc = "idle" /\ ~aborted
        /\ IF ~scalable_modern \/ ~root_scalable \/ ~dmar_enabled
           THEN /\ UNCHANGED <<p_iotlb, vtd_pasid_as, host_bound>>
                /\ last_op' = [NoOp EXCEPT !.op = "pasid_sync_off"]
           ELSE /\ p_iotlb' = vtd_flush_pasid_piotlb(p_iotlb, vtd_pasid_as, info)
                /\ vtd_pasid_as' = b2.as
                /\ host_bound' = b2.host
                /\ last_op' = [NoOp EXCEPT !.op = "pasid_sync", !.type = type, !.did = domain_id,
                                           !.pasid = pasid, !.error = b2.error, !.failed = b2.failed,
                                           !.pass1 = [as |-> b1.as, host |-> b1.host]]
        /\ xlat_out' = NoXlat
        /\ UNCHANGED <<faultVars, dmar_enabled, walkVars, lockVars, cacheVars, gmem, queueVars, iova_tree, sync_out,
                       root_scalable, scalable_mode, scalable_modern, pasid_tbl, reset_out>>

\* vtd_context_device_invalidate() of the one device sid, from the register
\* or from a descriptor: its context-cache generation is cleared, then
\* vtd_pasid_cache_devsi() runs vtd_pasid_cache_sync() with a device-selective
\* pc_info; no address space has a notifier
vtd_pasid_cache_devsi(sid, walk_type, walk_domain_id) ==
    LET info == PasidCacheDevsi(sid, walk_type, walk_domain_id)
        b0 == [as |-> vtd_pasid_as, host |-> host_bound, error |-> FALSE, failed |-> FALSE]
        b1 == vtd_pasid_cache_sync_step1(b0, pasid_tbl, vtd_pasid_as, info)
        b2 == vtd_replay_guest_pasid_bindings(b1, pasid_tbl, HostDevices, info)
    IN  /\ qi_pc = "idle" /\ ~aborted
        /\ IF ~scalable_modern \/ ~root_scalable \/ ~dmar_enabled
           THEN /\ UNCHANGED <<p_iotlb, vtd_pasid_as, host_bound>>
                /\ last_op' = [NoOp EXCEPT !.op = "pasid_sync_off"]
           ELSE /\ p_iotlb' = vtd_flush_pasid_piotlb(p_iotlb, vtd_pasid_as, info)
                /\ vtd_pasid_as' = b2.as
                /\ host_bound' = b2.host
                /\ last_op' = [NoOp EXCEPT !.op = "pasid_devsi", !.type = info.type, !.sid = sid,
                                           !.error = b2.error, !.failed = b2.failed,
                                           !.pass1 = [as |-> b1.as, host |-> b1.host]]
        /\ cc' = vtd_context_device_invalidate(cc, sid, 0)
        /\ xlat_out' = NoXlat
        /\ UNCHANGED <<faultVars, dmar_enabled, walkVars, lockVars, iotlb, context_cache_gen, gmem, queueVars,
                       iova_tree, sync_out, root_scalable, scalable_mode, scalable_modern, pasid_tbl,
                       reset_out>>

\* ------------------------------------------------------------------ the locks

\* everything but the locks and the threads
dataVars == <<faultVars, dmar_enabled, last_op, walkVars, cacheVars, gmem, xlat_out, queueVars, extVars>>

\* a thread outside the device takes or drops the big lock: a vCPU or the
\* main loop enters or leaves device emulation
qemu_mutex_lock_iothread(t) ==
    /\ pc[t] = "idle" /\ bql = 0
    /\ bql' = t
    /\ UNCHANGED <<iommu_lock, pc, lock_hist, dataVars>>

qemu_mutex_unlock_iothread(t) ==
    /\ pc[t] = "idle" /\ bql = t
    /\ bql' = 0
    /\ UNCHANGED <<iommu_lock, pc, lock_hist, dataVars>>

\* vtd_iommu_lock(): thread t, waiting at one of the calls, gets the mutex
vtd_iommu_lock(t) ==
    /\ pc[t] \in {"sl_lock", "fl_lock", "reg_lock"}
    /\ iommu_lock = 0
    /\ iommu_lock' = t
    /\ pc' = [pc EXCEPT ![t] = CASE pc[t] = "sl_lock" -> "sl_held"
                                  [] pc[t] = "fl_lock" -> "fl_held"
                                  [] OTHER -> "reg_held"]
    /\ UNCHANGED <<bql, lock_hist, dataVars>>

\* vtd_iommu_unlock() at out:, error: or a return of a translation, or at the
\* end of a register write.  Unlocking a mutex the thread does not hold is
\* undefined: the mutex is left as it was or ends up free
vtd_iommu_unlock(t) ==
    /\ pc[t] \in {"sl_unlock", "fl_unlock", "reg_unlock"}
    /\ IF iommu_lock = t
       THEN iommu_lock' = 0 /\ UNCHANGED lock_hist
       ELSE /\ iommu_lock' \in {iommu_lock, 0}
            /\ lock_hist' = [lock_hist EXCEPT !.bad_unlock = TRUE]
    /\ pc' = [pc EXCEPT ![t] = "idle"]
    /\ UNCHANGED <<bql, dataVars>>

\* vtd_do_iommu_translate() is called by thread t, with or without the big
\* lock: it starts with vtd_iommu_lock()
LockSlEnter(t) ==
    /\ pc[t] = "idle"
    /\ pc' = [pc EXCEPT ![t] = "sl_lock"]
    /\ UNCHANGED <<iommu_lock, bql, lock_hist, dataVars>>

\* vtd_do_iommu_translate() between its lock and its unlock: the lookups in
\* s->iotlb and in the context cache, then by path an IOTLB hit, a walk that
\* fills s->iotlb, a failure, or a pass-through context entry, for which
\* vtd_pt_enable_fast_path() is called before the unlock
LockSlBody(t, path) ==
    /\ pc[t] = "sl_held"
    /\ pc' = [pc EXCEPT ![t] = IF path = "pt" THEN "pt_switch" ELSE "sl_unlock"]
    /\ lock_hist' = [lock_hist EXCEPT !.unlocked_access = @ \/ iommu_lock # t]
    /\ UNCHANGED <<iommu_lock, bql, dataVars>>

\* vtd_switch_address_space() from vtd_pt_enable_fast_path(): take_bql is
\* !qemu_mutex_iothread_locked()
vtd_switch_address_space(t) ==
    /\ pc[t] = "pt_switch"
    /\ pc' = [pc EXCEPT ![t] = IF bql = t THEN "sl_unlock" ELSE "pt_bql_lock"]
    /\ UNCHANGED <<iommu_lock, bql, lock_hist, dataVars>>

\* qemu_mutex_lock_iothread() in vtd_switch_address_space()
LockPtBqlLock(t) ==
    /\ pc[t] = "pt_bql_lock" /\ bql = 0
    /\ bql' = t
    /\ pc' = [pc EXCEPT ![t] = "pt_bql_held"]
    /\ UNCHANGED <<iommu_lock, lock_hist, dataVars>>

\* the memory regions are switched and qemu_mutex_unlock_iothread() is called
LockPtBqlUnlock(t) ==
    /\ pc[t] = "pt_bql_held"
    /\ bql' = 0
    /\ pc' = [pc EXCEPT ![t] = "sl_unlock"]
    /\ UNCHANGED <<iommu_lock, lock_hist, dataVars>>

\* vtd_do_iommu_fl_translate() is called by thread t and looks the address up
\* in s->p_iotlb before any lock: a hit goes to out:, a miss to vtd_iommu_lock()
LockFlLookup(t, hit) ==
    /\ pc[t] = "idle"
    /\ pc' = [pc EXCEPT ![t] = IF hit THEN "fl_unlock" ELSE "fl_lock"]
    /\ lock_hist' = [lock_hist EXCEPT !.unlocked_access = @ \/ iommu_lock # t]
    /\ UNCHANGED <<iommu_lock, bql, dataVars>>

\* vtd_do_iommu_fl_translate() between its lock and its unlock: a PASID entry
\* that fails or is pass-through, a walk that fails, or one that fills s->p_iotlb
LockFlBody(t, path) ==
    /\ pc[t] = "fl_held"
    /\ pc' = [pc EXCEPT ![t] = "fl_unlock"]
    /\ lock_hist' = [lock_hist EXCEPT !.unlocked_access = @ \/ (path = "walk" /\ iommu_lock # t)]
    /\ UNCHANGED <<iommu_lock, bql, dataVars>>

\* a register write that invalidates a cache, under the big lock:
\* vtd_iommu_lock(), the removal, vtd_iommu_unlock()
LockRegEnter(t) ==
    /\ pc[t] = "idle" /\ bql = t
    /\ pc' = [pc EXCEPT ![t] = "reg_lock"]
    /\ UNCHANGED <<iommu_lock, bql, lock_hist, dataVars>>

LockRegBody(t) ==
    /\ pc[t] = "reg_held"
    /\ pc' = [pc EXCEPT ![t] = "reg_unlock"]
    /\ lock_hist' = [lock_hist EXCEPT !.unlocked_access = @ \/ iommu_lock # t]
    /\ UNCHANGED <<iommu_lock, bql, dataVars>>

\* ------------------------------------------------------------------ specifications

\* the fault recording registers under fault reports and guest register writes
InitFault ==
    /\ \E n \in 1..MaxFrcdRegNr : FaultReset(n)
    /\ dmar_enabled = TRUE
    /\ ExtReset
    /\ last_op = NoOp
    /\ WalkQuiet
    /\ LocksFree
    /\ CacheReset
    /\ gmem = GuestMemory(CeA, CeB, PtInitial)
    /\ xlat_out = NoXlat
    /\ QueueReset

NextFault ==
    \/ \E sid \in SourceIds, f \in FaultInputs, fpd \in BOOLEAN :
          ReportFault(sid, f, fpd) /\ UNCHANGED <<dmar_enabled, extVars, walkVars, lockVars, cacheVars, gmem, xlat_out, queueVars>>
    \/ \E i \in 0..(MaxFrcdRegNr - 1) :
          GuestClearFrcd(i) /\ UNCHANGED <<dmar_enabled, extVars, walkVars, lockVars, cacheVars, gmem, xlat_out, queueVars>>
    \/ \E p \in BOOLEAN, q \in BOOLEAN :
          GuestWriteFsts(p, q) /\ UNCHANGED <<dmar_enabled, extVars, walkVars, lockVars, cacheVars, gmem, xlat_out, queueVars>>
    \/ \E im \in BOOLEAN :
          GuestWriteFectl(im) /\ UNCHANGED <<dmar_enabled, extVars, walkVars, lockVars, cacheVars, gmem, xlat_out, queueVars>>
    \/ /\ vtd_handle_inv_queue_error
       /\ last_op' = [NoOp EXCEPT !.op = "queue_error"]
       /\ UNCHANGED <<dmar_enabled, extVars, walkVars, lockVars, cacheVars, gmem, xlat_out, queueVars>>

SpecFault == InitFault /\ [][NextFault]_vars

\* single second-stage walks over arbitrary guest page tables
InitWalk ==
    /\ FaultReset(1)
    /\ dmar_enabled = TRUE
    /\ ExtReset
    /\ last_op = NoOp
    /\ WalkQuiet
    /\ LocksFree
    /\ CacheReset
    /\ gmem = GuestMemory(CeA, CeB, PtInitial)
    /\ xlat_out = NoXlat
    /\ QueueReset

NextWalk ==
    \/ \E slpte \in SlpteChoices :
          WalkRead(slpte) /\ UNCHANGED <<faultVars, dmar_enabled, extVars, last_op, cacheVars, gmem, xlat_out, queueVars>>
    \/ \E in \in WalkInputs :
          WalkCall(in) /\ UNCHANGED <<faultVars, dmar_enabled, extVars, last_op, cacheVars, gmem, xlat_out, queueVars>>
    \/ WalkReturn /\ UNCHANGED <<faultVars, dmar_enabled, extVars, last_op, cacheVars, gmem, xlat_out, queueVars>>

SpecWalk == InitWalk /\ [][NextWalk]_vars

\* the invalidation queue: the guest programs the queue, moves the tail and
\* acknowledges events; the device drains the queue one descriptor per step
InitQueue ==
    /\ FaultReset(1)
    /\ dmar_enabled = TRUE
    /\ ExtReset
    /\ last_op = NoOp
    /\ WalkQuiet
    /\ LocksFree
    /\ CacheReset
    /\ gmem = GuestMemory(CeA, CeB, PtInitial)
    /\ xlat_out = NoXlat
    /\ QueueReset

\* history: the register write or the step of the drain made last; an enable
\* or disable write also keeps the operation it followed
QueueOp(op) == [NoOp EXCEPT !.op = op]

NextQueue ==
    \/ \E en \in BOOLEAN, qs \in QsValues :
          /\ vtd_handle_gcmd_qie(en, qs)
          /\ last_op' = [QueueOp(IF en THEN "qie_enable" ELSE "qie_disable") EXCEPT !.after = last_op.op]
          /\ UNCHANGED <<dmar_enabled, extVars, walkVars, lockVars, gmem, xlat_out>>
    \/ \E tail \in 0..MaxTail :
          /\ vtd_handle_iqt_write(tail)
          /\ last_op' = QueueOp("iqt_write")
          /\ UNCHANGED <<dmar_enabled, extVars, walkVars, lockVars, gmem, xlat_out>>
    \/ \E desc \in QueueDescs :
          /\ vtd_fetch_inv_desc_step(desc)
          /\ last_op' = QueueOp("fetch_step")
          /\ UNCHANGED <<dmar_enabled, extVars, walkVars, lockVars, gmem, xlat_out>>
    \/ /\ GuestWriteIcs
       /\ last_op' = QueueOp("nop")
       /\ UNCHANGED <<faultVars, dmar_enabled, extVars, walkVars, lockVars, cacheVars, gmem, xlat_out>>
    \/ \E im \in BOOLEAN :
          /\ GuestWriteIectl(im)
          /\ last_op' = QueueOp("nop")
          /\ UNCHANGED <<faultVars, dmar_enabled, extVars, walkVars, lockVars, cacheVars, gmem, xlat_out>>
    \/ /\ qi_pc = "idle" /\ ~aborted
       /\ GuestWriteFsts(FALSE, TRUE)
       /\ UNCHANGED <<dmar_enabled, extVars, walkVars, lockVars, cacheVars, gmem, xlat_out, queueVars>>

SpecQueue == InitQueue /\ [][NextQueue]_vars

\* translation with the IOTLB: devices translate while the guest rewrites its
\* tables, moves device 16 between domains and invalidates through the
\* registers or through the queue

\* the DMA requests the devices issue: <<source id, IOVA, is_write>>
XlatRequests == {<<16, {12}, TRUE>>, <<16, {13}, FALSE>>, <<16, {13}, TRUE>>, <<17, {12}, FALSE>>}

\* the context entries the guest stores for device 16
XlatContextEntries == {CeA, CeB}

\* the paging entries the guest rewrites: 0..2M as a table of 4K pages or as one large page
XlatPtRewrites == {rw \in PtRewrites : rw.cell = <<TableA2, 0>>}

\* the register commands the guest issues
XlatCcCmds == {InvCmd("device", 16, 0, 0, {}, 0)}

XlatIotlbCmds ==
    {InvCmd("global", 0, 0, 0, {}, 0), InvCmd("domain", 0, 0, 1, {}, 0),
     InvCmd("domain", 0, 0, 2, {}, 0), InvCmd("page", 0, 0, 1, {12}, 0)}

\* the descriptors the guest queues
XlatDescs ==
    {Desc("VTD_INV_DESC_IOTLB", "global"),
     [Desc("VTD_INV_DESC_IOTLB", "domain") EXCEPT !.did = 1],
     [Desc("VTD_INV_DESC_IOTLB", "page") EXCEPT !.did = 2, !.addr = {12}, !.am = 9]}

\* the guest enables the queue with the smallest size
QueueEnable ==
    /\ vtd_handle_gcmd_qie(TRUE, 0)
    /\ last_op' = [NoOp EXCEPT !.op = "nop"]
    /\ xlat_out' = NoXlat
    /\ UNCHANGED <<dmar_enabled, extVars, walkVars, lockVars, gmem>>

\* the guest queues one descriptor: it moves the tail past the head
QueueSubmit ==
    /\ qi_enabled
    /\ vtd_handle_iqt_write(IqHeadAdvance(iq_head, iq_size))
    /\ last_op' = [NoOp EXCEPT !.op = "nop"]
    /\ xlat_out' = NoXlat
    /\ UNCHANGED <<dmar_enabled, extVars, walkVars, lockVars, gmem>>

\* the device handles the queued descriptor, which holds desc
QueueHandle(desc) ==
    /\ vtd_fetch_inv_desc_step(desc)
    /\ last_op' = InvOp(IF desc.type = "VTD_INV_DESC_CC" THEN "cc" ELSE "iotlb",
                        desc.g, desc.did, desc.am, iotlb, iotlb')
    /\ xlat_out' = NoXlat
    /\ UNCHANGED <<dmar_enabled, extVars, walkVars, lockVars, gmem>>

InitXlat ==
    /\ FaultReset(1)
    /\ dmar_enabled = TRUE
    /\ ExtReset
    /\ last_op = NoOp
    /\ WalkQuiet
    /\ LocksFree
    /\ CacheReset
    /\ gmem = GuestMemory(CeA, CeB, PtInitial)
    /\ xlat_out = NoXlat
    /\ QueueReset

NextXlat ==
    \/ \E rq \in XlatRequests : Translate(rq[1], rq[2], rq[3])
    \/ \E rw \in XlatPtRewrites : GuestWritePt(rw.cell, rw.val)
    \/ \E ce \in XlatContextEntries : GuestWriteCe(16, ce)
    \/ \E cmd \in XlatCcCmds : vtd_handle_ccmd_write(cmd)
    \/ \E cmd \in XlatIotlbCmds : vtd_handle_iotlb_write(cmd)
    \/ QueueEnable
    \/ QueueSubmit
    \/ \E desc \in XlatDescs : QueueHandle(desc)

SpecXlat == InitXlat /\ [][NextXlat]_vars

\* the context cache: devices translate while the guest replaces or removes
\* the context entry of device 16 and invalidates the context cache

\* a context entry that is not present
CeNone == [CeA EXCEPT !.P = FALSE]

CtxRequests == {<<16, {12}, TRUE>>, <<17, {12}, FALSE>>}

CtxContextEntries == {CeA, CeB, CeNone}

CtxCcCmds == {InvCmd("global", 0, 0, 0, {}, 0), InvCmd("domain", 0, 0, 1, {}, 0),
              InvCmd("device", 16, 0, 0, {}, 0), InvCmd("device", 16, 3, 0, {}, 0)}

CtxIotlbCmds == {InvCmd("global", 0, 0, 0, {}, 0)}

CtxDescs == {Desc("VTD_INV_DESC_CC", "global"), Desc("VTD_INV_DESC_IOTLB", "global")}

NextCtx ==
    \/ \E rq \in CtxRequests : Translate(rq[1], rq[2], rq[3])
    \/ \E ce \in CtxContextEntries : GuestWriteCe(16, ce)
    \/ \E cmd \in CtxCcCmds : vtd_handle_ccmd_write(cmd)
    \/ \E cmd \in CtxIotlbCmds : vtd_handle_iotlb_write(cmd)
    \/ QueueEnable
    \/ QueueSubmit
    \/ \E desc \in CtxDescs : QueueHandle(desc)

SpecCtx == InitXlat /\ [][NextCtx]_vars

\* ---- translations that fault, with one fault recording register

\* the context entries the guest stores for device 16: usable, not present, and
\* of a translation type the unit lacks (device IOTLB), each with FPD clear and
\* with FPD set; and one with a reserved bit and FPD set
XfContextEntries ==
    {[ce EXCEPT !.FPD = fpd] :
        ce \in {CeA, CeNone, [CeA EXCEPT !.TT = "VTD_CONTEXT_TT_DEV_IOTLB"]}, fpd \in BOOLEAN}
    \cup {[CeA EXCEPT !.rsvd = TRUE, !.FPD = TRUE]}

\* the root entry of bus 0, present or not
XfRootEntries == {RootEntryOk, [RootEntryOk EXCEPT !.P = FALSE]}

\* a write to 0x2000, which is read only, and a write to 0x1000, which is allowed
XfRequests == {<<16, {13}, TRUE>>, <<16, {12}, TRUE>>}

\* the guest stores the root entry
GuestWriteRe(re) ==
    /\ qi_pc = "idle" /\ ~aborted
    /\ gmem' = [gmem EXCEPT !.re = re]
    /\ last_op' = [NoOp EXCEPT !.op = "guest_write"]
    /\ xlat_out' = NoXlat
    /\ UNCHANGED <<faultVars, dmar_enabled, extVars, walkVars, lockVars, cacheVars, queueVars>>

InitXfault ==
    /\ FaultReset(1)
    /\ dmar_enabled = TRUE
    /\ ExtReset
    /\ last_op = NoOp
    /\ WalkQuiet
    /\ LocksFree
    /\ CacheReset
    /\ gmem = GuestMemory(CeA, CeB, PtInitial)
    /\ xlat_out = NoXlat
    /\ QueueReset

NextXfault ==
    \/ \E rq \in XfRequests : Translate(rq[1], rq[2], rq[3])
    \/ \E ce \in XfContextEntries : GuestWriteCe(16, ce)
    \/ \E re \in XfRootEntries : GuestWriteRe(re)
    \/ vtd_handle_ccmd_write(InvCmd("device", 16, 0, 0, {}, 0))
    \/ vtd_handle_iotlb_write(InvCmd("global", 0, 0, 0, {}, 0))
    \/ GuestClearFrcd(0) /\ UNCHANGED <<dmar_enabled, extVars, walkVars, lockVars, cacheVars, gmem, xlat_out, queueVars>>
    \/ GuestWriteFectl(FALSE) /\ UNCHANGED <<dmar_enabled, extVars, walkVars, lockVars, cacheVars, gmem, xlat_out, queueVars>>

SpecXfault == InitXfault /\ [][NextXfault]_vars

\* ---- second-stage walks under guest-written scalable-mode PASID entries

\* the rid2pasid entries the guest stores: every type, an unknown one, every
\* AW field up to level 5, a first-stage paging mode of 4 and of 5 levels
SmPasidEntries ==
    {[readable |-> TRUE, P |-> p, pgtt |-> t, AW |-> a, FLPM |-> 0] :
        p \in BOOLEAN,
        t \in {"VTD_SM_PASID_ENTRY_SLT", "VTD_SM_PASID_ENTRY_NESTED", "VTD_SM_PASID_ENTRY_PT", "unknown"},
        a \in 0..3}
    \cup {[readable |-> TRUE, P |-> TRUE, pgtt |-> "VTD_SM_PASID_ENTRY_FLT", AW |-> 2, FLPM |-> m] :
             m \in {0, 1}}
    \cup {[readable |-> FALSE, P |-> FALSE, pgtt |-> "unknown", AW |-> 0, FLPM |-> 0]}

\* the requests: a read and a write of 0x1020 on a 48-bit device in scalable mode
SmWalkInputs ==
    {[iova |-> {12, 5}, is_write |-> w, aw |-> VTD_HOST_AW_48BIT, level |-> VTD_SL_PML4_LEVEL,
      dt |-> FALSE, snoop_control |-> FALSE, scalable_mode |-> TRUE] : w \in BOOLEAN}

\* the paging entries the guest stores: a table pointer, a 4K or large read
\* and write leaf, a read-only entry, an entry with a reserved bit, zero, and a
\* failed read
SmSlpteChoices ==
    {{VTD_SL_R, VTD_SL_W, 30}, {VTD_SL_R, VTD_SL_W, VTD_SL_PT_PAGE_SIZE_BIT, 30}, {VTD_SL_R, 30},
     {VTD_SL_R, VTD_SL_W, 30, 51}, {}, AllOnes}

InitSmWalk ==
    /\ FaultReset(1)
    /\ dmar_enabled = TRUE
    /\ iova_tree = {}
    /\ sync_out = NoSync
    /\ p_iotlb = {}
    /\ vtd_pasid_as = {}
    /\ host_bound = {}
    /\ root_scalable = TRUE
    /\ scalable_mode = TRUE
    /\ scalable_modern = FALSE
    /\ pasid_tbl = [k \in Devices \X Pasids |-> PeNone]
    /\ reset_out = NoReset
    /\ last_op = NoOp
    /\ WalkQuiet
    /\ LocksFree
    /\ CacheReset
    /\ gmem = GuestMemory(CeA, CeB, PtInitial)
    /\ xlat_out = NoXlat
    /\ QueueReset

NextSmWalk ==
    \/ \E pe \in SmPasidEntries, in \in SmWalkInputs : SmTranslate(pe, in)
    \/ \E slpte \in SmSlpteChoices : SmWalkRead(slpte)
    \/ /\ WalkReturn /\ ~aborted
       /\ last_op' = [NoOp EXCEPT !.op = "sm_return"]
       /\ UNCHANGED <<faultVars, dmar_enabled, extVars, cacheVars, gmem, xlat_out, queueVars>>

SpecSmWalk == InitSmWalk /\ [][NextSmWalk]_vars

\* ---- both translation caches under translations and invalidations, under a
\* ---- legacy and under a scalable root table

\* the DMA reads of the devices behind a legacy root table: <<source id, IOVA>>
TlbRequests == {<<16, {12}>>, <<16, {13}>>, <<17, {12}>>, <<17, {13}>>}

\* the register commands: global, and page-selective for 0x1000 alone, for
\* 0x2000 .. 0x3fff of domain 1 and for 0 .. 2M of domain 2
TlbIotlbCmds ==
    {InvCmd("global", 0, 0, 0, {}, 0), InvCmd("page", 0, 0, 1, {12}, 0),
     InvCmd("page", 0, 0, 1, {13}, 1), InvCmd("page", 0, 0, 2, {12}, 9)}

\* first-stage translations of device 17: the IOVAs and the level of the page
\* the guest's table maps them by
TlbFlAddrs == {{12}, {13}}
TlbFlLevels == {VTD_SL_PT_LEVEL, VTD_SL_PD_LEVEL}

\* the address masks of the process-scoped page-selective descriptors: one
\* page, 2M, and 2^32 pages
TlbPiotlbAms == {0, 9, 32}

InitTlb ==
    /\ FaultReset(1)
    /\ dmar_enabled = TRUE
    /\ iova_tree = {}
    /\ sync_out = NoSync
    /\ p_iotlb = {}
    /\ vtd_pasid_as = {}
    /\ host_bound = {}
    /\ root_scalable \in BOOLEAN
    /\ scalable_mode = root_scalable
    /\ scalable_modern = root_scalable
    /\ pasid_tbl = [k \in Devices \X Pasids |-> PeNone]
    /\ reset_out = NoReset
    /\ last_op = NoOp
    /\ WalkQuiet
    /\ LocksFree
    /\ CacheReset
    /\ gmem = GuestMemory(CeA, CeB, PtInitial)
    /\ xlat_out = NoXlat
    /\ QueueReset

NextTlb ==
    \/ \E rq \in TlbRequests : ~root_scalable /\ Translate(rq[1], rq[2], FALSE)
    \/ \E rw \in XlatPtRewrites : ~root_scalable /\ GuestWritePt(rw.cell, rw.val)
    \/ \E cmd \in TlbIotlbCmds : vtd_handle_iotlb_write(cmd)
    \/ \E pasid \in Pasids, did \in {1, 2}, addr \in TlbFlAddrs, level \in TlbFlLevels :
          FlTranslate(17, pasid, did, addr, level)
    \/ \E did \in {1, 2}, pasid \in Pasids, am \in TlbPiotlbAms :
          vtd_process_piotlb_desc(did, pasid, {12}, am)

SpecTlb == InitTlb /\ [][NextTlb]_vars

\* ---- the context-entry resolver over guest-written root, context and PASID entries

\* the root entry of bus 0 and the context entry of device 16 the guest has written
ResolveRootEntries == [readable : BOOLEAN, P : BOOLEAN, rsvd : BOOLEAN]

ResolveContextEntries ==
    {[CeA EXCEPT !.readable = r, !.P = p, !.rsvd = v, !.AW = a, !.TT = t] :
        r \in BOOLEAN, p \in BOOLEAN, v \in BOOLEAN, a \in {2, 3},
        t \in {"VTD_CONTEXT_TT_MULTI_LEVEL", "VTD_CONTEXT_TT_DEV_IOTLB", "reserved"}}

InitResolve ==
    /\ FaultReset(1)
    /\ dmar_enabled = TRUE
    /\ iova_tree = {}
    /\ sync_out = NoSync
    /\ p_iotlb = {}
    /\ vtd_pasid_as = {}
    /\ host_bound = {}
    /\ root_scalable \in BOOLEAN
    /\ scalable_mode = root_scalable
    /\ scalable_modern = FALSE
    /\ pasid_tbl = [k \in Devices \X Pasids |-> PeNone]
    /\ reset_out = NoReset
    /\ last_op = NoOp
    /\ WalkQuiet
    /\ LocksFree
    /\ CacheReset
    /\ \E re \in ResolveRootEntries, ce \in ResolveContextEntries :
          gmem = [GuestMemory(ce, CeB, PtInitial) EXCEPT !.re = re]
    /\ xlat_out = NoXlat
    /\ QueueReset

NextResolve ==
    \/ \E pe \in SmPasidEntries : Resolve(16, pe)
    \/ ~root_scalable /\ Translate(16, {12}, FALSE)

SpecResolve == InitResolve /\ [][NextResolve]_vars

\* ---- repeated synchronisation of the shadow page table of device 16

\* the paging entries the guest stores: the page at 0x1000 mapped to 0x2000 or
\* 0x3000 or not at all, the page at 0x2000 read only or not at all, and
\* 0..2M as a table of 4K pages or as one large page
SyncPtRewrites ==
    PtRewrites \cup {[cell |-> <<TableA1, 1>>, val |-> {}],
                     [cell |-> <<TableA1, 2>>, val |-> {}],
                     [cell |-> <<TableA1, 2>>, val |-> LeafRO5000]}

\* the page-selective invalidations the guest issues: address and address mask
SyncRanges == {<<{}, 2>>, <<{12}, 0>>, <<{13}, 0>>}

InitSync ==
    /\ FaultReset(1)
    /\ dmar_enabled = TRUE
    /\ ExtReset
    /\ last_op = NoOp
    /\ WalkQuiet
    /\ LocksFree
    /\ CacheReset
    /\ gmem = GuestMemory(CeA, CeB, PtInitial)
    /\ xlat_out = NoXlat
    /\ QueueReset

NextSync ==
    \/ \E rw \in SyncPtRewrites :
          GuestWritePt(rw.cell, rw.val) /\ gmem' # gmem
    \/ \E did \in {1, 2}, rg \in SyncRanges : vtd_iotlb_page_invalidate_notify(did, rg[1], rg[2])

SpecSync == InitSync /\ [][NextSync]_vars

\* ---- the mappings held by the notifier of device 16 while the guest turns
\* ---- 0..2M from a large page into a table of 4K pages and back

\* the page-selective invalidations the guest issues: address and address mask
NotifierRanges == {<<{}, 2>>, <<{12}, 0>>, <<{13}, 0>>}

InitNotifier ==
    /\ FaultReset(1)
    /\ dmar_enabled = TRUE
    /\ iova_tree = {}
    /\ sync_out = [NoSync EXCEPT !.watch = TRUE]
    /\ p_iotlb = {}
    /\ vtd_pasid_as = {}
    /\ host_bound = {}
    /\ root_scalable = FALSE
    /\ scalable_mode = FALSE
    /\ scalable_modern = FALSE
    /\ pasid_tbl = [k \in Devices \X Pasids |-> PeNone]
    /\ reset_out = NoReset
    /\ last_op = NoOp
    /\ WalkQuiet
    /\ LocksFree
    /\ CacheReset
    /\ gmem = GuestMemory(CeA, CeB, PtInitial)
    /\ xlat_out = NoXlat
    /\ QueueReset

NextNotifier ==
    \/ \E rw \in XlatPtRewrites : GuestWritePt(rw.cell, rw.val) /\ gmem' # gmem
    \/ \E rg \in NotifierRanges : vtd_iotlb_page_invalidate_notify(1, rg[1], rg[2])
    \/ vtd_address_space_unmap
    \/ vtd_iommu_replay

SpecNotifier == InitNotifier /\ [][NextNotifier]_vars

\* ---- first-stage range walks for device 16 while the guest rewrites its
\* ---- first-stage tables
InitFlt ==
    /\ FaultReset(1)
    /\ dmar_enabled = TRUE
    /\ iova_tree = {}
    /\ sync_out = NoSync
    /\ p_iotlb = {}
    /\ vtd_pasid_as = {}
    /\ host_bound = {}
    /\ root_scalable = TRUE
    /\ scalable_mode = TRUE
    /\ scalable_modern = TRUE
    /\ pasid_tbl = [k \in Devices \X Pasids |-> PeNone]
    /\ reset_out = NoReset
    /\ last_op = NoOp
    /\ WalkQuiet
    /\ LocksFree
    /\ CacheReset
    /\ gmem = GuestMemory(CeA, CeB, FlPtInitial)
    /\ xlat_out = NoXlat
    /\ QueueReset

NextFlt ==
    \/ \E rw \in FlPtRewrites : GuestWritePt(rw.cell, rw.val) /\ gmem' # gmem
    \/ \E rg \in FlRanges : vtd_sync_flt_range(rg[1], rg[2])

SpecFlt == InitFlt /\ [][NextFlt]_vars

\* ---- the PASID cache of the host-backed device 16 under guest writes of its
\* ---- PASID table and PASID-cache invalidation descriptors

\* the PASID entries the guest stores: none, first-stage in domain 1 and 2,
\* second-stage (the host refuses it), and one of an unknown type
PasidSyncEntries == {PeNone, PeFlt, PeFlt2, PeSlt, PeInv}

\* the granularities of the PASID-cache invalidation descriptor
PasidSyncTypes == {"VTD_PASID_CACHE_GLOBAL_INV", "VTD_PASID_CACHE_DOMSI", "VTD_PASID_CACHE_PASIDSI"}

\* what the walk of a device-selective sync can find as its type: a value
\* that is neither of the two with a domain check, or the domain-selective one
PasidWalkTypes == {"VTD_PASID_CACHE_DEVSI", "VTD_PASID_CACHE_DOMSI"}

InitPasidSync ==
    /\ FaultReset(1)
    /\ dmar_enabled = TRUE
    /\ iova_tree = {}
    /\ sync_out = NoSync
    /\ p_iotlb = {}
    /\ vtd_pasid_as = {}
    /\ host_bound = {}
    /\ root_scalable = TRUE
    /\ scalable_mode = TRUE
    /\ scalable_modern \in BOOLEAN
    /\ pasid_tbl = [k \in Devices \X Pasids |-> PeNone]
    /\ reset_out = NoReset
    /\ last_op = NoOp
    /\ WalkQuiet
    /\ LocksFree
    /\ CacheReset
    /\ gmem = GuestMemory(CeA, CeB, PtInitial)
    /\ xlat_out = NoXlat
    /\ QueueReset

NextPasidSync ==
    \/ \E pasid \in Pasids, pe \in PasidSyncEntries :
          GuestWritePasid(16, pasid, pe) /\ pasid_tbl' # pasid_tbl
    \/ \E type \in PasidSyncTypes, did \in {1, 2}, pasid \in Pasids :
          vtd_process_pasid_desc(type, did, pasid)
    \/ \E wt \in PasidWalkTypes, wd \in {0, 1, 2} : vtd_pasid_cache_devsi(16, wt, wd)

SpecPasidSync == InitPasidSync /\ [][NextPasidSync]_vars

\* ---- two threads that translate, with and without the big lock, and write
\* ---- registers under it

\* the ways through vtd_do_iommu_translate() and vtd_do_iommu_fl_translate()
\* once the lock is taken
LockSlPaths == {"hit", "walk", "error", "pt"}
LockFlPaths == {"walk", "error", "pt"}

InitLock ==
    /\ FaultReset(1)
    /\ dmar_enabled = TRUE
    /\ ExtReset
    /\ last_op = NoOp
    /\ WalkQuiet
    /\ LocksFree
    /\ CacheReset
    /\ gmem = GuestMemory(CeA, CeB, PtInitial)
    /\ xlat_out = NoXlat
    /\ QueueReset

NextLock ==
    \E t \in Threads :
        \/ qemu_mutex_lock_iothread(t)
        \/ qemu_mutex_unlock_iothread(t)
        \/ vtd_iommu_lock(t)
        \/ vtd_iommu_unlock(t)
        \/ LockSlEnter(t)
        \/ \E path \in LockSlPaths : LockSlBody(t, path)
        \/ vtd_switch_address_space(t)
        \/ LockPtBqlLock(t)
        \/ LockPtBqlUnlock(t)
        \/ \E hit \in BOOLEAN : LockFlLookup(t, hit)
        \/ \E path \in LockFlPaths : LockFlBody(t, path)
        \/ LockRegEnter(t)
        \/ LockRegBody(t)

SpecLock == InitLock /\ [][NextLock]_vars

\* ---- reset, root table pointer and translation enable

\* x-scalable-mode off, legacy and modern: (scalable_mode, scalable_modern)
ScalableModes == {<<FALSE, FALSE>>, <<TRUE, FALSE>>, <<TRUE, TRUE>>}

\* the PASID entries the guest stores for the host-backed device
ResetPasidEntries == {PeNone, PeFlt, PeSlt}

\* the DMA requests of the emulated device 17
ResetRequests == {{12}}

InitReset ==
    /\ FaultReset(1)
    /\ dmar_enabled = FALSE
    /\ iova_tree = {}
    /\ sync_out = NoSync
    /\ p_iotlb = {}
    /\ vtd_pasid_as = {}
    /\ host_bound = {}
    /\ root_scalable = FALSE
    /\ \E m \in ScalableModes : scalable_mode = m[1] /\ scalable_modern = m[2]
    /\ pasid_tbl = [k \in Devices \X Pasids |-> IF k = <<17, 0>> THEN PeFlt ELSE PeNone]
    /\ reset_out = NoReset
    /\ last_op = NoOp
    /\ WalkQuiet
    /\ LocksFree
    /\ CacheReset
    /\ gmem = GuestMemory(CeA, CeB, PtInitial)
    /\ xlat_out = NoXlat
    /\ QueueReset

NextReset ==
    \/ vtd_reset
    \/ \E smt \in BOOLEAN : vtd_handle_gcmd_srtp(smt)
    \/ \E en \in BOOLEAN : vtd_handle_gcmd_te(en)
    \/ \E addr \in ResetRequests : ~root_scalable /\ Translate(17, addr, FALSE)
    \/ \E addr \in ResetRequests : vtd_do_iommu_fl_translate(17, addr)
    \/ \E pasid \in Pasids, pe \in ResetPasidEntries :
          GuestWritePasid(16, pasid, pe) /\ pasid_tbl' # pasid_tbl

SpecReset == InitReset /\ [][NextReset]_vars

\* ------------------------------------------------------------------ properties: fault recording

\* the step just taken was a fault report that reached vtd_report_frcd_fault()
ReportStep == last_op'.op = "report" /\ ~last_op'.dropped

\* some register marked F holds source id sid
SlotHolds(sid) == \E i \in DOMAIN frcd : frcd[i].F /\ frcd[i].sid = sid

\* C9 (fault compression): no two fault recording registers marked F hold the
\* same source id, and a fault reported for a source id that a register marked
\* F already holds changes no register, no FSTS or FECTL bit and not the
\* cursor, and sends no interrupt.
C9_SameSourceCollapses ==
    /\ [](\A i \in DOMAIN frcd, j \in DOMAIN frcd :
            (frcd[i].F /\ frcd[j].F /\ frcd[i].sid = frcd[j].sid) => i = j)
    /\ [][(ReportStep /\ SlotHolds(last_op'.sid)) =>
            /\ frcd' = frcd
            /\ fsts' = fsts
            /\ fectl' = fectl
            /\ next_frcd_reg' = next_frcd_reg
            /\ ~fault_msi']_vars

\* a second fault of a source id was reported while its register was still marked F
C9_Witness ==
    /\ last_op.op = "report" /\ last_op.dup /\ ~last_op.dropped /\ ~last_op.pfo
    /\ Cardinality({i \in DOMAIN frcd : frcd[i].F /\ frcd[i].sid = last_op.sid}) = 1
    /\ frcd_reg_nr > 1

\* C10 (fault overflow): a fault reported from a source id not yet recorded
\* while every register is marked F sets PFO and changes no register; and
\* while PFO is set a fault report changes no register and not the cursor.
C10_OverflowKeepsSlots ==
    [][/\ (ReportStep /\ (\A i \in DOMAIN frcd : frcd[i].F) /\ ~SlotHolds(last_op'.sid))
            => (fsts'.PFO /\ frcd' = frcd)
       /\ (last_op'.op = "report" /\ fsts.PFO)
            => (frcd' = frcd /\ next_frcd_reg' = next_frcd_reg /\ fsts'.PFO)]_vars

\* a fault from a new source id arrived with every register marked F and set PFO
C10_Witness ==
    /\ last_op.op = "report" /\ last_op.full /\ ~last_op.dup /\ ~last_op.dropped
    /\ ~last_op.pfo
    /\ fsts.PFO
    /\ \A i \in DOMAIN frcd : frcd[i].F

\* ------------------------------------------------------------------ properties: the walk

\* the request was allowed by every entry read
ChainAllows ==
    \A k \in DOMAIN walk_hist :
        (IF walk_in.is_write THEN VTD_SL_W ELSE VTD_SL_R) \in walk_hist[k].rw

\* the walk read a chain of readable, reserved-bit-clean entries that allow the
\* request, ending in a leaf
CleanChainToLeaf ==
    /\ walk_hist # <<>>
    /\ \A k \in DOMAIN walk_hist : walk_hist[k].readable /\ ~walk_hist[k].rsvd
    /\ ChainAllows
    /\ walk_hist[Len(walk_hist)].leaf

\* the frame address of the leaf read last, aligned to the page of its level
LeafFrame ==
    (walk_last.slpte \cap BitRange(VTD_PAGE_SHIFT_4K, walk_in.aw - 1))
        \cap BitRange(VTD_PAGE_SHIFT_4K + (walk_last.level - 1) * VTD_SL_LEVEL_BITS, 63)

\* the low bits of the request's address inside the leaf's page
IovaLowBits ==
    walk_in.iova \cap BitRange(0, VTD_PAGE_SHIFT_4K + (walk_last.level - 1) * VTD_SL_LEVEL_BITS - 1)

\* the leaf's page [frame, frame + size - 1] overlaps 0xfee00000..0xfeefffff
LeafInInterruptWindow ==
    LET last == LeafFrame \cup BitRange(0, VTD_PAGE_SHIFT_4K + (walk_last.level - 1) * VTD_SL_LEVEL_BITS - 1)
    IN  WordLeq(LeafFrame, VTD_INTERRUPT_ADDR_LAST) /\ WordLeq(VTD_INTERRUPT_ADDR_FIRST, last)

\* the rights every entry of the chain grants
ChainRights ==
    (IF \A k \in DOMAIN walk_hist : VTD_SL_R \in walk_hist[k].rw THEN {"r"} ELSE {})
    \cup (IF \A k \in DOMAIN walk_hist : VTD_SL_W \in walk_hist[k].rw THEN {"w"} ELSE {})

\* the rights the leaf alone grants
LeafRights ==
    (IF VTD_SL_R \in walk_last.slpte THEN {"r"} ELSE {})
    \cup (IF VTD_SL_W \in walk_last.slpte THEN {"w"} ELSE {})

\* C6 as stated: over a clean chain the walk succeeds, the permission returned
\* is the leaf's, and the translated address is the leaf's frame combined with
\* the low bits of the IOVA.
C6_Original ==
    CleanChainToLeaf =>
        /\ walk.status = "ok"
        /\ walk_out.ok
        /\ walk_out.perm = LeafRights
        /\ walk_out.translated_addr = LeafFrame \cup IovaLowBits

\* C6 (walk over a clean chain): when every entry read is readable, free of
\* reserved bits and allows the request, down to a leaf whose page lies outside
\* the interrupt window, the walk succeeds; the permission returned is the
\* rights granted by every entry of the chain together, the translated address
\* is the leaf's frame aligned to the leaf's page size, and the low bits of the
\* IOVA are left to the caller through the address mask.
C6_CleanChainSucceeds ==
    (CleanChainToLeaf /\ ~LeafInInterruptWindow) =>
        /\ walk.status = "ok"
        /\ walk_out.ok
        /\ walk_out.perm = ChainRights
        /\ walk_out.translated_addr = LeafFrame
        /\ walk_out.iova = walk_in.iova \ IovaLowBits
        /\ walk_out.addr_mask = BitRange(0, VTD_PAGE_SHIFT_4K + (walk_last.level - 1) * VTD_SL_LEVEL_BITS - 1)

\* a read through a table entry granting read only reached a read+write large
\* leaf and was given read only
C6_Witness ==
    /\ CleanChainToLeaf /\ ~LeafInInterruptWindow
    /\ walk.status = "ok"
    /\ Len(walk_hist) = 3
    /\ walk_last.level = VTD_SL_PD_LEVEL
    /\ LeafRights = {"r", "w"}
    /\ walk_out.perm = {"r"}
    /\ IovaLowBits # {}

\* a bit of the reserved mask of its level and page size is set in the entry read last
ReservedBitSet ==
    /\ walk_last.level # 0
    /\ walk_last.slpte \cap SlpteRsvdMask(walk_last.slpte, walk_last.level, walk_in.aw, walk_in.dt,
                                          walk_in.scalable_mode \/ walk_in.snoop_control) # {}

\* C7 as stated: a reserved bit set in a visited entry fails the walk with
\* VTD_FR_PAGING_ENTRY_RSVD.
C7_Original ==
    ReservedBitSet => walk.status = "VTD_FR_PAGING_ENTRY_RSVD"

\* C7 (reserved bits): a reserved bit set in a visited entry that was read
\* successfully (not all ones) and grants the requested access fails the walk
\* with VTD_FR_PAGING_ENTRY_RSVD.
C7_ReservedBitFaults ==
    (/\ ReservedBitSet
     /\ walk_last.slpte # AllOnes
     /\ (IF walk_in.is_write THEN VTD_SL_W ELSE VTD_SL_R) \in walk_last.slpte)
        => walk.status = "VTD_FR_PAGING_ENTRY_RSVD"

\* a large-page entry at level 2 with an address bit below its page size set
\* was refused as reserved
C7_Witness ==
    /\ walk.status = "VTD_FR_PAGING_ENTRY_RSVD"
    /\ walk_last.level = VTD_SL_PD_LEVEL
    /\ VTD_SL_PT_PAGE_SIZE_BIT \in walk_last.slpte
    /\ 12 \in walk_last.slpte
    /\ Len(walk_hist) = 3

\* the entry read last was read successfully and lacks the bit the request needs
AccessDenied ==
    /\ walk_last.level # 0
    /\ walk_last.slpte # AllOnes
    /\ (IF walk_in.is_write THEN VTD_SL_W ELSE VTD_SL_R) \notin walk_last.slpte

\* C26: an entry without the requested permission bit ends the walk with the
\* Write reason for a write and the Read reason for a read, whatever reserved
\* bits it has set, and these reasons are given at the first such entry only.
C26_PermissionBeforeReserved ==
    /\ AccessDenied => walk.status = (IF walk_in.is_write THEN "VTD_FR_WRITE" ELSE "VTD_FR_READ")
    /\ walk.status \in {"VTD_FR_WRITE", "VTD_FR_READ"} =>
          /\ AccessDenied
          /\ \A k \in 1..(Len(walk_hist) - 1) :
                (IF walk_in.is_write THEN VTD_SL_W ELSE VTD_SL_R) \in walk_hist[k].rw

\* a write met, at the second entry of the walk, a read-only entry that also
\* has a reserved bit set
C26_Witness ==
    /\ walk.status = "VTD_FR_WRITE"
    /\ walk_in.is_write
    /\ ReservedBitSet
    /\ VTD_SL_R \in walk_last.slpte
    /\ Len(walk_hist) = 2

\* C27: a walk that reached a leaf through clean entries is refused for its
\* translated page exactly when that page overlaps 0xfee00000..0xfeefffff, with
\* VTD_FR_SM_INTERRUPT_ADDR on a scalable-mode device and
\* VTD_FR_INTERRUPT_ADDR on a legacy one.
C27_InterruptWindowRejected ==
    /\ (CleanChainToLeaf /\ LeafInInterruptWindow)
          => walk.status = (IF walk_in.scalable_mode THEN "VTD_FR_SM_INTERRUPT_ADDR"
                            ELSE "VTD_FR_INTERRUPT_ADDR")
    /\ walk.status \in {"VTD_FR_SM_INTERRUPT_ADDR", "VTD_FR_INTERRUPT_ADDR"}
          => CleanChainToLeaf /\ LeafInInterruptWindow

\* a 1G leaf at 0xc0000000, which starts below the window and covers it, was
\* refused on a scalable-mode device
C27_Witness ==
    /\ walk.status = "VTD_FR_SM_INTERRUPT_ADDR"
    /\ walk_last.level = VTD_SL_PDP_LEVEL
    /\ LeafFrame = {30, 31}

\* ------------------------------------------------------------------ properties: the caches

\* the step just taken was a translation
TranslateStep == last_op'.op = "translate"

\* the address whose 4K frame number is gfn
GfnAddr(gfn) == {b + VTD_PAGE_SHIFT_4K : b \in gfn}

\* C1 (global IOTLB invalidation): a global invalidation, by register or by
\* descriptor, leaves the IOTLB empty, a lookup of any key held before it
\* misses, and the translation that follows it does not hit.
C1_GlobalInvalidateEmpties ==
    [][/\ (last_op'.op = "iotlb_global") =>
            /\ iotlb' = {}
            /\ \A e \in iotlb : vtd_lookup_iotlb(iotlb', e.sid, e.pasid, GfnAddr(e.gfn)) = {}
       /\ (last_op.op = "iotlb_global" /\ TranslateStep) => ~xlat_out'.hit]_vars

\* a global invalidation descriptor emptied an IOTLB that held two entries
C1_Witness ==
    /\ last_op.op = "iotlb_global"
    /\ Cardinality(last_op.removed) >= 2
    /\ qi_enabled
    /\ iotlb = {}

\* a domain-selective invalidation removes exactly the entries of its domain
DomainInvalidateFrame ==
    (last_op'.op = "iotlb_domain") =>
        /\ iotlb' = {e \in iotlb : e.domain_id # last_op'.did}
        /\ last_op'.removed = {e \in iotlb : e.domain_id = last_op'.did}

\* the step is the translation that follows a domain-selective invalidation,
\* for a request one of the removed entries covered
RemovedKeyTranslated ==
    /\ last_op.op = "iotlb_domain"
    /\ TranslateStep
    /\ \E e \in last_op.removed : IotlbCovers(e, xlat_out'.sid, PCI_NO_PASID, xlat_out'.addr)

\* C2 as stated: after a domain-selective invalidation the next translation
\* for a removed key misses the IOTLB and walks the page table.
C2_Original ==
    [][/\ DomainInvalidateFrame
       /\ RemovedKeyTranslated => (~xlat_out'.hit /\ xlat_out'.walked)]_vars

\* C2 (domain-selective IOTLB invalidation): the invalidation removes exactly
\* the entries of its domain; the next translation for a removed key misses
\* and walks the page table unless an entry that was kept, of another domain,
\* covers the address at another level, and then it is served from that entry.
C2_DomainInvalidate ==
    [][/\ DomainInvalidateFrame
       /\ RemovedKeyTranslated =>
            LET kept == vtd_lookup_iotlb(iotlb, xlat_out'.sid, PCI_NO_PASID, xlat_out'.addr)
            IN  IF kept = {}
                THEN ~xlat_out'.hit /\ xlat_out'.walked
                ELSE /\ xlat_out'.hit
                     /\ \A e \in kept :
                           /\ e.domain_id # last_op.did
                           /\ \A r \in last_op.removed : r.sid = e.sid => r.level # e.level \/ r.gfn # e.gfn]_vars

\* after a domain-selective invalidation that kept an entry, the translation
\* for a removed key missed and walked the page table
C2_Witness ==
    /\ last_op.op = "translate"
    /\ xlat_out.after = "iotlb_domain"
    /\ xlat_out.removed_key
    /\ ~xlat_out.hit /\ xlat_out.walked /\ xlat_out.entry.ok
    /\ Cardinality(iotlb) >= 2

\* the generation stays in 1..MAX-1, and after a global context-cache
\* invalidation no address space holds the current generation
GenerationInvalidatesAll ==
    /\ context_cache_gen \in 1..(GenMax - 1)
    /\ (last_op.op = "cc_global") => \A d \in Devices : cc[d].gen # context_cache_gen

\* the translation just made reflects the context entry guest memory holds
\* for its device: it fails when that entry is not present, and when it
\* succeeds it was made for that entry's domain, from that entry
ReflectsGuestContext ==
    LET sid == xlat_out'.sid
        ce == gmem.ce[sid]
    IN  /\ ~ce.P => ~xlat_out'.entry.ok
        /\ xlat_out'.entry.ok =>
              IF xlat_out'.hit
              THEN \A e \in vtd_lookup_iotlb(iotlb, sid, PCI_NO_PASID, xlat_out'.addr) :
                      e.domain_id = ce.DID
              ELSE cc'[sid] = [gen |-> context_cache_gen, ce |-> ce]

PageOffsetBits(level) == 0..(VTD_PAGE_SHIFT_4K + (level - 1) * VTD_SL_LEVEL_BITS - 1)

\* the entry a leaf of the given level must give for addr
LeafOutput(addr, e) ==
    [ok |-> TRUE,
     iova |-> addr \ PageOffsetBits(e.level),
     translated_addr |-> (e.pte \cap (VTD_PAGE_SHIFT_4K..(IommuConfig.aw_bits - 1))) \ PageOffsetBits(e.level),
     addr_mask |-> PageOffsetBits(e.level),
     perm |-> e.access_flags]

\* guest memory holds the 4-level table with the 4K read+write leaf at 0x1000 for frame 0x2000
ScenarioTable ==
    /\ gmem.pt[<<TableA4, 0>>] = TablePointer(TableA3)
    /\ gmem.pt[<<TableA3, 0>>] = TablePointer(TableA2)
    /\ gmem.pt[<<TableA2, 0>>] = TablePointer(TableA1)
    /\ gmem.pt[<<TableA1, 1>>] = LeafRW2000

\* C8 (translate output): a successful translation served by a leaf of level
\* L, cached or just walked, returns the IOVA and the leaf's frame aligned to
\* the level-L page, the level-L offset mask and the leaf's permissions; the
\* write to 0x1000 walked through the 4-level table of domain 1 returns frame
\* 0x2000, read+write, size 4096.
C8_TranslateOutput ==
    [][(TranslateStep /\ xlat_out'.entry.ok) =>
          /\ IF xlat_out'.hit
             THEN \E e \in vtd_lookup_iotlb(iotlb, xlat_out'.sid, PCI_NO_PASID, xlat_out'.addr) :
                      xlat_out'.entry = LeafOutput(xlat_out'.addr, e)
             ELSE /\ xlat_out'.walked
                  /\ \E e \in iotlb' :
                        /\ IotlbCovers(e, xlat_out'.sid, PCI_NO_PASID, xlat_out'.addr)
                        /\ xlat_out'.entry = LeafOutput(xlat_out'.addr, e)
          /\ (/\ xlat_out'.walked /\ ScenarioTable /\ cc'[xlat_out'.sid].ce = CeA
              /\ xlat_out'.addr = {12} /\ xlat_out'.is_write) =>
                /\ xlat_out'.entry.translated_addr = {13}
                /\ xlat_out'.entry.perm = {"r", "w"}
                /\ xlat_out'.entry.iova = {12}
                /\ WordToInt(xlat_out'.entry.addr_mask) + 1 = 4096]_vars

\* the write to 0x1000 was walked to the 4K leaf and returned frame 0x2000 read+write
C8_Witness ==
    /\ last_op.op = "translate"
    /\ xlat_out.sid = 16 /\ xlat_out.addr = {12} /\ xlat_out.is_write
    /\ xlat_out.walked /\ ~xlat_out.hit
    /\ xlat_out.entry = [ok |-> TRUE, iova |-> {12}, translated_addr |-> {13},
                         addr_mask |-> 0..11, perm |-> {"r", "w"}]

\* ------------------------------------------------------------------ properties: cache transparency

\* the outcome of a translation that uses no cache: the context entry is
\* fetched from guest memory and the page table is walked
FreshTranslate(sid, addr, is_write) ==
    LET c == vtd_dev_to_context_entry(gmem, sid) IN
    IF c.fr # "ok" THEN [entry |-> ErrorEntry, fr |-> c.fr]
    ELSE IF vtd_dev_pt_enabled(c.ce)
    THEN [entry |-> [ok |-> TRUE, iova |-> addr \cap BitRange(VTD_PAGE_SHIFT_4K, 63),
                     translated_addr |-> addr \cap BitRange(VTD_PAGE_SHIFT_4K, 63),
                     addr_mask |-> BitRange(0, VTD_PAGE_SHIFT_4K - 1),
                     perm |-> {"r", "w"}], fr |-> "ok"]
    ELSE LET w == vtd_iova_to_slpte(
                      WalkStart(c.ce.SLPTPTR, vtd_ce_get_level(c.ce), addr, IommuConfig.aw_bits),
                      gmem, addr, is_write)
         IN  IF w.status # "ok"
             THEN [entry |-> ErrorEntry, fr |-> w.status]
             ELSE [entry |-> OutEntry(addr, w.slpte, vtd_slpt_level_page_mask(w.level),
                                      IOMMU_ACCESS_FLAG(w.reads, w.writes), IommuConfig.aw_bits),
                   fr |-> "ok"]

\* the cached entry e is what a walk of the guest tables as they are now stores
\* for the address: the tables have not changed under it
CachedFromCurrentTables(e, sid, addr) ==
    LET c == vtd_dev_to_context_entry(gmem, sid) IN
    /\ c.fr = "ok" /\ ~vtd_dev_pt_enabled(c.ce)
    /\ \E is_write \in BOOLEAN :
          LET w == vtd_iova_to_slpte(
                       WalkStart(c.ce.SLPTPTR, vtd_ce_get_level(c.ce), addr, IommuConfig.aw_bits),
                       gmem, addr, is_write)
          IN  /\ w.status = "ok"
              /\ e.pte = w.slpte /\ e.level = w.level
              /\ e.access_flags = IOMMU_ACCESS_FLAG(w.reads, w.writes)
              /\ e.domain_id = vtd_get_domain_id(c.ce)

\* C34 (the translation cache is transparent): a translation served from a
\* cached entry that the guest tables as they are now would produce gives the
\* outcome of a fresh walk: the same success or failure, the same returned
\* fields, the same fault reason and the same fault registers.
C34_CacheTransparent ==
    [][(/\ TranslateStep /\ xlat_out'.hit
        /\ \A e \in vtd_lookup_iotlb(iotlb, xlat_out'.sid, PCI_NO_PASID, xlat_out'.addr) :
              CachedFromCurrentTables(e, xlat_out'.sid, xlat_out'.addr)) =>
          LET fresh == FreshTranslate(xlat_out'.sid, xlat_out'.addr, xlat_out'.is_write)
          IN  /\ xlat_out'.entry = fresh.entry
              /\ xlat_out'.fr = fresh.fr
              /\ (fresh.fr = "ok") => UNCHANGED faultVars]_vars


\* ------------------------------------------------------------------ properties: first-stage range walk

\* C39 (first-stage range walk): every entry a call of the walk reads is read
\* from the table the call was made for, at that table's level and at the
\* index of its IOVA at that level.
C39_TableReadAtItsLevel ==
    (last_op.op = "flt_sync") =>
        \A i \in DOMAIN sync_out.visits :
            LET v == sync_out.visits[i] IN
            /\ v.addr = v.table
            /\ v.level = v.table_level
            /\ v.offset = vtd_iova_fl_level_offset(v.iova, v.table_level)

\* ------------------------------------------------------------------ properties: the queue

\* C4 as stated: handling a descriptor never aborts; it ends with the head
\* advanced or with the invalidation queue error raised.
C4_DescriptorNeverAborts ==
    [][(qi_pc = "fetch") =>
          /\ ~aborted'
          /\ (iq_head' = IqHeadAdvance(iq_head, iq_size) \/ fsts'.IQE)]_vars

\* C5 (ring order): the k-th descriptor a drain handles is the one at index
\* (head at start + k) mod queue size, counting from 0; each step handles the
\* descriptor at the head; and a drain that ends without a queue error has
\* reached the tail.
C5_RingOrder ==
    /\ []((drain.k > 0) => drain.idx = (drain.start + drain.k - 1) % iq_size)
    /\ []((qi_pc = "fetch" /\ ~aborted) =>
             (iq_head # iq_tail /\ iq_head = (drain.start + drain.k) % iq_size))
    /\ [][(qi_pc = "fetch") =>
             /\ drain'.k = drain.k + 1
             /\ drain'.idx = iq_head
             /\ (qi_pc' = "idle" /\ ~fsts'.IQE /\ ~aborted') => iq_head' = iq_tail]_vars

\* a drain of three descriptors started at the last slot, wrapped and reached the tail
C5_Witness ==
    /\ qi_pc = "idle" /\ ~fsts.IQE /\ ~aborted
    /\ iq_size = 4
    /\ drain.start = 3 /\ drain.k = 3 /\ drain.idx = 1
    /\ iq_head = iq_tail

\* the step enters vtd_fetch_inv_desc(): a tail write, or an enable write with a
\* non-zero tail, made with the queue enabled and no queue error pending
DrainEntered ==
    /\ qi_pc = "idle"
    /\ qi_enabled' /\ ~fsts.IQE
    /\ \/ last_op'.op = "iqt_write"
       \/ last_op'.op = "qie_enable" /\ iq_tail # 0

\* C36 as stated: while the queue is enabled the head is below the queue size;
\* a drain entered with the tail at or beyond the queue size raises the queue
\* error and handles no descriptor; any other drain handles at most queue-size
\* descriptors and ends with head = tail or with the queue error set.
C36_DrainTerminates ==
    /\ [](qi_enabled => iq_head < iq_size)
    /\ [](drain.k <= iq_size)
    /\ [][(DrainEntered /\ iq_tail' >= iq_size') =>
             /\ fsts'.IQE /\ qi_pc' = "idle"
             /\ UNCHANGED <<iq_head, iqh_reg, iq_last_desc_type, cacheVars, inv_event>>]_vars
    /\ [][(qi_pc = "fetch") =>
             /\ drain'.k = drain.k + 1
             /\ qi_pc' = "idle" \/ (qi_pc' = "fetch" /\ ~aborted' /\ iq_head' # iq_tail)
             /\ qi_pc' = "idle" => (iq_head' = iq_tail \/ fsts'.IQE)]_vars

\* a disable write that took effect leaves the head at 0 and the tail as it
\* was, so that head = tail no longer holds when the tail is not 0
DisableResetsHead ==
    (last_op'.op = "qie_disable" /\ qi_enabled /\ ~qi_enabled') =>
        /\ iq_head' = 0 /\ iqh_reg' = 0
        /\ iq_tail' = iq_tail
        /\ (iq_tail # 0) => iq_head' # iq_tail'

\* the step is the enable write that follows a disable that took effect, with
\* a non-zero tail and no tail write in between
EnableAfterDisable ==
    /\ last_op.op = "qie_disable" /\ ~qi_enabled
    /\ last_op'.op = "qie_enable"
    /\ iq_tail # 0

IqhIndex(reg) == reg \div 2 ^ VTD_IQH_QH_SHIFT_4

\* C15 (queue error stops the drain): a descriptor whose handling fails ends
\* the drain at once with the invalidation queue error set; no drain runs while
\* the error is set, and a tail write or an enable write made while it is set
\* handles no descriptor.
C15_QueueErrorStopsDrain ==
    /\ [](fsts.IQE => qi_pc = "idle")
    /\ [][(last_op'.op = "fetch_step" /\ ~drain'.ok /\ ~aborted') =>
             (fsts'.IQE /\ qi_pc' = "idle")]_vars
    /\ [][(fsts.IQE /\ last_op'.op \in {"iqt_write", "qie_enable"}) =>
             /\ qi_pc' = "idle"
             /\ fsts'.IQE
             /\ UNCHANGED <<iq_head, iqh_reg, iq_last_desc_type, cacheVars, inv_event>>]_vars

\* a drain failed at its second descriptor, and the tail write that followed
\* left the descriptors between head and tail alone
C15_Witness ==
    /\ fsts.IQE /\ qi_enabled
    /\ last_op.op = "iqt_write"
    /\ drain.k = 2 /\ ~drain.ok
    /\ iq_tail < iq_size /\ iq_head # iq_tail

\* C16 (head register): DMAR_IQH_REG always shows the internal head; a
\* descriptor handled with success advances both by one, and a descriptor that
\* fails leaves both at its own index, one past the last completed descriptor.
C16_HeadRegisterFollowsHead ==
    /\ [](IqhIndex(iqh_reg) = iq_head /\ iqh_reg % 2 ^ VTD_IQH_QH_SHIFT_4 = 0)
    /\ [][(last_op'.op = "fetch_step" /\ drain'.ok) =>
             (iq_head' = IqHeadAdvance(iq_head, iq_size) /\ IqhIndex(iqh_reg') = iq_head')]_vars
    /\ [][(last_op'.op = "fetch_step" /\ ~drain'.ok) =>
             /\ UNCHANGED <<iq_head, iqh_reg>>
             /\ iq_head' = drain'.idx
             /\ iq_head' = (drain'.start + drain'.k - 1) % iq_size]_vars

\* the third descriptor of a drain failed: head and register stay on it, two
\* past the start
C16_Witness ==
    /\ last_op.op = "fetch_step"
    /\ drain.k = 3 /\ ~drain.ok /\ fsts.IQE
    /\ iq_head = (drain.start + 2) % iq_size /\ iq_head # drain.start
    /\ IqhIndex(iqh_reg) = iq_head

\* C17 (disable): a disable write takes effect exactly when head = tail and the
\* last descriptor type is wait; otherwise the enabled flag, its status bit,
\* head, tail and the head register stay as they are; neither case aborts.
C17_DisableOnlyWhenIdle ==
    [][(last_op'.op = "qie_disable") =>
          /\ ~aborted'
          /\ iq_tail' = iq_tail
          /\ IF qi_enabled /\ iq_head = iq_tail /\ iq_last_desc_type = "VTD_INV_DESC_WAIT"
             THEN ~qi_enabled' /\ ~gsts'.QIES /\ iq_head' = 0 /\ iqh_reg' = 0
             ELSE UNCHANGED <<qi_enabled, gsts, iq_head, iqh_reg>>]_vars

\* a disable write refused with an empty queue whose last descriptor was not a wait
C17_Witness ==
    /\ last_op.op = "qie_disable"
    /\ qi_enabled /\ gsts.QIES
    /\ iq_head = iq_tail /\ iq_head # 0
    /\ iq_last_desc_type = "VTD_INV_DESC_CC"

\* a tail write made with the queue disabled stores the tail and handles nothing
TailWriteWhileDisabled ==
    (last_op'.op = "iqt_write" /\ ~qi_enabled) =>
        /\ qi_pc' = "idle"
        /\ UNCHANGED <<iq_head, iqh_reg, iq_last_desc_type, cacheVars, faultVars, inv_event>>

\* C18 as stated: an enable write with a non-zero tail and no queue error
\* pending starts the drain at once.
C18_Original ==
    /\ [][TailWriteWhileDisabled]_vars
    /\ [][(last_op'.op = "qie_enable" /\ iq_tail # 0 /\ ~fsts.IQE) =>
             (qi_pc' = "fetch" /\ drain'.start = iq_head /\ ~fsts'.IQE)]_vars

\* C18 (tail written before enable): the tail write made while the queue is
\* disabled handles nothing; the enable write that follows, with no queue
\* error pending, starts the drain from the head at once when the tail lies
\* inside the queue of the size just captured, and raises the queue error
\* without handling anything when it does not.
C18_EnableDrainsEarlierTail ==
    /\ [][TailWriteWhileDisabled]_vars
    /\ [][(last_op'.op = "qie_enable" /\ iq_tail # 0 /\ ~fsts.IQE) =>
             IF iq_tail < iq_size'
             THEN qi_pc' = "fetch" /\ drain'.start = iq_head /\ drain'.k = 0 /\ ~fsts'.IQE
             ELSE qi_pc' = "idle" /\ fsts'.IQE /\ UNCHANGED <<iq_head, iqh_reg, cacheVars>>]_vars

\* the enable write found a tail written earlier and started the drain
C18_Witness ==
    /\ last_op.op = "qie_enable"
    /\ qi_enabled /\ qi_pc = "fetch"
    /\ iq_tail # 0 /\ iq_head = 0 /\ drain.k = 0

\* C19 (last descriptor type): after every attempt to handle a descriptor that
\* was read, the last-descriptor-type field holds that descriptor's type,
\* whether the handler succeeded, failed or hit its assertion; a descriptor
\* that could not be read leaves VTD_INV_DESC_NONE.
C19_LastTypeRecorded ==
    [][(last_op'.op = "fetch_step") =>
          iq_last_desc_type' = IF drain'.readable THEN drain'.type ELSE "VTD_INV_DESC_NONE"]_vars

\* an IOTLB descriptor failed as the second descriptor of a drain; its type is kept
C19_Witness ==
    /\ last_op.op = "fetch_step"
    /\ drain.k = 2 /\ drain.readable /\ ~drain.ok /\ fsts.IQE
    /\ drain.type = "VTD_INV_DESC_IOTLB"
    /\ iq_last_desc_type = "VTD_INV_DESC_IOTLB"

\* a fault report that gets past FPD, overflow, compression and a used cursor
\* register, and so is recorded
RecordStep ==
    /\ ReportStep
    /\ ~fsts.PFO
    /\ ~SlotHolds(last_op'.sid)
    /\ ~frcd[next_frcd_reg].F

\* the fault event reaches software: the MSI is sent, or with the interrupt
\* masked FECTL.IP is left set
FaultEventRaised == IF fectl.IM THEN fectl'.IP /\ ~fault_msi' ELSE fault_msi' /\ ~fectl'.IP

\* C20 (recording a fault): the register under the cursor gets the record and
\* its F bit while the others keep theirs, PPF is the OR of all F bits, the
\* cursor advances by one modulo the number of registers, and the fault event
\* is raised exactly when the new register is the only one marked F and no
\* earlier interrupt condition still awaits software; a report made while one
\* awaits software (PPF, PFO or IQE set) raises none.
C20_RecordAdvancesCursor ==
    /\ []((fsts.PPF <=> \E i \in DOMAIN frcd : frcd[i].F) /\ next_frcd_reg < frcd_reg_nr)
    /\ [][RecordStep =>
             /\ frcd'[next_frcd_reg].F /\ frcd'[next_frcd_reg].sid = last_op'.sid
             /\ \A i \in DOMAIN frcd : i # next_frcd_reg => frcd'[i] = frcd[i]
             /\ fsts'.PPF
             /\ next_frcd_reg' = (next_frcd_reg + 1) % frcd_reg_nr
             /\ IF (\A i \in DOMAIN frcd : i # next_frcd_reg => ~frcd'[i].F) /\ ~fsts.IQE
                THEN FaultEventRaised
                ELSE ~fault_msi' /\ fectl' = fectl]_vars
    /\ [][(last_op'.op = "report" /\ (fsts.PPF \/ fsts.PFO \/ fsts.IQE)) =>
             (~fault_msi' /\ fectl' = fectl)]_vars

\* a fault recorded in the last of two registers, the only one marked F: the
\* cursor wrapped to 0 and the interrupt was sent
C20_Witness ==
    /\ last_op.op = "report" /\ ~last_op.dropped
    /\ frcd_reg_nr = 2 /\ next_frcd_reg = 0
    /\ frcd[1].F /\ frcd[1].sid = last_op.sid /\ ~frcd[0].F
    /\ fsts.PPF /\ fsts.FRI = 1
    /\ fault_msi

\* ------------------------------------------------------------------ properties: translation faults

\* what vtd_report_frcd_fault() does with a fault of source id sid: nothing
\* under overflow or compression, PFO when the cursor register is in use, else
\* the record with its reason in the cursor register
FaultHandedOver(sid, fr, is_write) ==
    IF fsts.PFO \/ SlotHolds(sid)
    THEN frcd' = frcd /\ fsts' = fsts /\ ~fault_msi'
    ELSE IF frcd[next_frcd_reg].F
    THEN frcd' = frcd /\ fsts'.PFO /\ ~fault_msi'
    ELSE /\ frcd'[next_frcd_reg] = [F |-> TRUE, sid |-> sid, fr |-> fr, is_write |-> is_write]
         /\ fsts'.PPF
         /\ (~fsts.PPF /\ ~fsts.IQE) => FaultEventRaised

\* no fault register, status or control bit changes and no interrupt is sent
FaultSilent ==
    frcd' = frcd /\ fsts' = fsts /\ fectl' = fectl /\ next_frcd_reg' = next_frcd_reg /\ ~fault_msi'

\* a translation that misses the IOTLB and the context cache and finds the
\* root entry, or else the context entry, of its device not present
AbsentStep ==
    /\ TranslateStep /\ ~xlat_out'.hit
    /\ cc[xlat_out'.sid].gen # context_cache_gen
    /\ gmem.re.readable
    /\ (~gmem.re.P \/ (~gmem.re.rsvd /\ gmem.ce[xlat_out'.sid].readable /\ ~gmem.ce[xlat_out'.sid].P))

UsedCe(sid) == IF cc[sid].gen = context_cache_gen THEN cc[sid].ce ELSE gmem.ce[sid]

C11_SecondWalkSilent ==
    /\ [](\A m \in iova_tree, t \in iova_tree : DMAMapOverlap(m, t) => m = t)
    /\ [](sync_out.again = <<>>)
    /\ []((last_op.op = "sync" /\ sync_out.repeat) => sync_out.events = <<>>)

\* the walk was run twice over 0..0x4000: the first run sent an UNMAP and a MAP
\* event, the second none, with two mappings in the tree
C11_Witness ==
    /\ last_op.op = "sync" /\ sync_out.repeat
    /\ sync_out.start = {} /\ sync_out.end = {14}
    /\ sync_out.events = <<>>
    /\ sync_out.before = {"IOMMU_NOTIFIER_UNMAP", "IOMMU_NOTIFIER_MAP"}
    /\ Cardinality(iova_tree) = 2

\* ------------------------------------------------------------------ properties: reset of the caches

\* a reset, an SRTP command or a TE write that changed the enabled state ran last
CachesReset == last_op.op \in {"reset", "srtp"} \/ (last_op.op = "te" /\ reset_out.flipped)

\* the IOTLB and the first-stage IOTLB are empty and no device's cached
\* context entry is valid
TranslationCachesEmpty ==
    /\ iotlb = {}
    /\ p_iotlb = {}
    /\ \A d \in Devices : cc[d].gen # context_cache_gen

\* the bindings the guest's PASID tables hold for the host-backed devices: the
\* present first-stage and pass-through entries
GuestBindings ==
    {[sid |-> d, pasid |-> p, cache_filled |-> TRUE, pe |-> pasid_tbl[<<d, p>>]] :
        <<d, p>> \in {k \in HostDevices \X Pasids :
                         /\ pasid_tbl[k].P
                         /\ \/ pasid_tbl[k].pgtt = "VTD_SM_PASID_ENTRY_PT"
                            \/ pasid_tbl[k].pgtt = "VTD_SM_PASID_ENTRY_FLT" /\ pasid_tbl[k].flptr}}

\* C12 as stated: after a reset, an SRTP command and a TE write that changed
\* the enabled state the translation caches are empty and so is the table of
\* PASID address spaces.
C12_Original == CachesReset => (TranslationCachesEmpty /\ vtd_pasid_as = {})

\* C12 (caches after a reset): after a reset, an SRTP command and a TE write
\* that changed the enabled state the IOTLB and the first-stage IOTLB are empty
\* and every cached context entry is invalid; the table of PASID address
\* spaces is empty unless DMA remapping is enabled in modern scalable mode
\* under a scalable root table, where it holds the bindings replayed from the
\* guest's PASID tables; the host holds the attachments of that table only.
C12_CachesResetBindingsReplayed ==
    CachesReset =>
        /\ TranslationCachesEmpty
        /\ vtd_pasid_as = IF dmar_enabled /\ scalable_modern /\ root_scalable THEN GuestBindings ELSE {}
        /\ host_bound = {<<e.sid, e.pasid>> : e \in vtd_pasid_as}

\* an SRTP command found first-stage IOTLB entries and a binding of PASID 0, and
\* left the caches empty and a replayed binding of PASID 1 only
C12_Witness ==
    /\ last_op.op = "srtp"
    /\ reset_out.p_iotlb /\ reset_out.pasid_as = {<<16, 0>>}
    /\ TranslationCachesEmpty
    /\ host_bound = {<<16, 1>>}

\* ------------------------------------------------------------------ properties: the walk under a PASID entry

\* C21 as stated: no translation reaches a failed assertion, and whenever the
\* reserved-bit check is applied the level is within 1..4, for every PASID
\* entry the resolver accepts.
C21_TranslateNeverAborts ==
    /\ ~aborted
    /\ walk.status # "abort"
    /\ \A i \in DOMAIN walk_hist :
          (walk_hist[i].readable /\ (IF walk_in.is_write THEN VTD_SL_W ELSE VTD_SL_R) \in walk_hist[i].rw)
              => (walk_in.level - (i - 1)) \in 1..4

\* ------------------------------------------------------------------ properties: both translation caches

\* the addresses the devices of SpecTlb ask for
TlbAddrs == {{12}, {13}}

\* C22 as stated: after a global translation-cache invalidation
\* vtd_lookup_piotlb() misses for every key it found before the invalidation.
C22_GlobalInvalidateEmptiesPiotlb ==
    [][last_op'.op = "iotlb_global"
          => \A sid \in Devices, pasid \in Pasids, addr \in TlbAddrs :
                vtd_lookup_piotlb(p_iotlb, pasid, addr, sid) # {}
                    => vtd_lookup_piotlb(p_iotlb', pasid, addr, sid) = {}]_vars

\* the page of a cached entry and the 2^am-page aligned block holding addr
\* share a page: both are naturally aligned, so they do exactly when their page
\* numbers agree from the larger of the two exponents up
PageOverlapsBlock(e, addr, am) ==
    LET s == IF 9 * (e.level - 1) > am THEN 9 * (e.level - 1) ELSE am
    IN  e.gfn \cap BitRange(s, 63) = ShiftRight(addr, 12) \cap BitRange(s, 63)

\* C23 as stated: a page-selective invalidation removes exactly the entries of
\* the domain whose page overlaps the aligned block of 2^am pages holding the
\* address; the process-scoped one removes exactly those that also carry the
\* descriptor's pasid.
C23_PageInvalidateRemovesOverlapping ==
    [][/\ \A cmd \in TlbIotlbCmds :
             (cmd.g = "page" /\ vtd_handle_iotlb_write(cmd))
                 => iotlb' = {e \in iotlb : ~(e.domain_id = cmd.did
                                              /\ PageOverlapsBlock(e, cmd.addr, cmd.am))}
       /\ \A did \in {1, 2}, pasid \in Pasids, am \in TlbPiotlbAms :
             vtd_process_piotlb_desc(did, pasid, {12}, am)
                 => p_iotlb' = {e \in p_iotlb : ~(e.domain_id = did /\ e.pasid = pasid
                                                  /\ PageOverlapsBlock(e, {12}, am))}]_vars

\* at most one entry under a key (source id, pasid, level, page number)
OnePerKey(tlb) ==
    \A e1, e2 \in tlb :
        (e1.sid = e2.sid /\ e1.pasid = e2.pasid /\ e1.level = e2.level /\ e1.gfn = e2.gfn) => e1 = e2

\* C24: neither cache ever holds more than its maximum or two entries under one
\* key, and a step that adds an entry to a full cache leaves that entry alone.
C24_CachesBounded ==
    /\ [](/\ Cardinality(iotlb) <= IotlbMaxSize /\ OnePerKey(iotlb)
          /\ Cardinality(p_iotlb) <= PiotlbMaxSize /\ OnePerKey(p_iotlb))
    /\ [][/\ (iotlb' \ iotlb # {} /\ Cardinality(iotlb) >= IotlbMaxSize) => Cardinality(iotlb') = 1
          /\ (p_iotlb' \ p_iotlb # {} /\ Cardinality(p_iotlb) >= PiotlbMaxSize)
                => Cardinality(p_iotlb') = 1]_vars

\* a first-stage translation has just stored its entry in a full table
C24_Witness ==
    /\ last_op.op = "fl_translate"
    /\ Cardinality(last_op.removed) = PiotlbMaxSize
    /\ Cardinality(p_iotlb) = 1

\* ------------------------------------------------------------------ properties: the context-entry resolver

\* the checks in the order the claim gives them, each with the reason it
\* reports: <<the check fails, reason>>
ResolveChecks(mem, sid, pe) ==
    LET re == mem.re
        ce == mem.ce[sid]
    IN  << <<~re.readable, "VTD_FR_ROOT_TABLE_INV">>,
           <<~re.P, "VTD_FR_ROOT_ENTRY_P">>,
           <<re.rsvd, "VTD_FR_ROOT_ENTRY_RSVD">>,
           <<~ce.readable, "VTD_FR_CONTEXT_TABLE_INV">>,
           <<~ce.P, "VTD_FR_CONTEXT_ENTRY_P">>,
           <<ce.rsvd, "VTD_FR_CONTEXT_ENTRY_RSVD">>,
           <<~root_scalable /\ (2 + ce.AW \notin {3, 4}
                                \/ ce.TT # "VTD_CONTEXT_TT_MULTI_LEVEL"), "VTD_FR_CONTEXT_ENTRY_INV">>,
           <<root_scalable /\ vtd_ce_rid2pasid_check(pe) # "ok", vtd_ce_rid2pasid_check(pe)>> >>

\* the reason of the first check that fails, "ok" when none does
FirstFailure(checks) ==
    IF \A i \in DOMAIN checks : ~checks[i][1] THEN "ok"
    ELSE checks[CHOOSE i \in DOMAIN checks : checks[i][1] /\ \A j \in 1..(i - 1) : ~checks[j][1]][2]

\* C25: the resolver reports the first failing check of the fixed order, also
\* when later checks would fail too, and a translation whose context entry the
\* resolver refuses leaves the caches as they were.
C25_FirstFailingStep ==
    [][/\ \A pe \in SmPasidEntries :
             Resolve(16, pe) => xlat_out'.fr = FirstFailure(ResolveChecks(gmem, 16, pe))
       /\ \A pe \in SmPasidEntries :
             (last_op'.op = "translate" /\ FirstFailure(ResolveChecks(gmem, 16, pe)) # "ok")
                 => /\ xlat_out'.fr = FirstFailure(ResolveChecks(gmem, 16, pe))
                    /\ UNCHANGED cacheVars]_vars

\* the resolver has reported a root entry that is not present although its
\* reserved bits are set and the context entry is bad as well
C25_Witness ==
    /\ last_op.op = "resolve"
    /\ xlat_out.fr = "VTD_FR_ROOT_ENTRY_P"
    /\ gmem.re.rsvd /\ ~gmem.ce[16].P /\ gmem.ce[16].rsvd

\* ------------------------------------------------------------------ properties: the notifier's mappings

\* C28 as stated: whatever the guest rewrites and however it invalidates, the
\* notifier never holds two live mappings of one page.
C28_NoOverlappingLiveMappings ==
    \A p \in SyncProbes : Cardinality({h \in sync_out.held : h[1] = p}) <= 1

\* the mappings of the tree that cover page p, as the notifier holds them
TreeAt(p) ==
    {[iova |-> m.iova, addr_mask |-> m.size, translated_addr |-> m.translated_addr, perm |-> m.perm] :
        m \in {t \in iova_tree : p \ t.size = t.iova}}

\* the mappings the notifier holds at page p
HeldAt(p) == {h[2] : h \in {x \in sync_out.held : x[1] = p}}

\* C40 as stated: after any sequence of syncs, whole-range unmaps and replays
\* the tree holds at every page what the notifier holds there.
C40_TreeMatchesObserver ==
    \A p \in SyncProbes : TreeAt(p) = HeldAt(p)

\* ------------------------------------------------------------------ properties: the PASID cache

\* the address space e is in the scope of the invalidation info, by the
\* domain of its cached entry
PasidInScope(e, info) ==
    /\ info.type = "VTD_PASID_CACHE_PASIDSI" => info.pasid = e.pasid
    /\ info.type \in {"VTD_PASID_CACHE_PASIDSI", "VTD_PASID_CACHE_DOMSI"} => info.domain_id = e.pe.did

\* the guest's entry is present and of a known type
PasidEntryUsable(pe) == pe.P /\ pe.pgtt # "unknown"

\* C29 as stated: in step 1 of a PASID-cache sync every address space in the
\* scope of the invalidation is unbound and dropped when the guest's entry is
\* absent or invalid, is rebound with the guest's entry as its cached copy
\* when that entry differs from the cached copy, and keeps its record and its
\* host binding when the entry is identical; address spaces outside the scope
\* keep both.
C29_PassOneByEntry ==
    [][last_op'.op = "pasid_sync" =>
          \A e \in vtd_pasid_as :
              LET info == PasidCacheInfo(last_op'.type, last_op'.did, last_op'.pasid)
                  pe == pasid_tbl[<<e.sid, e.pasid>>]
                  key == <<e.sid, e.pasid>>
                  after == last_op'.pass1
                  same == e \in after.as /\ (key \in after.host <=> key \in host_bound)
              IN  IF ~PasidInScope(e, info) THEN same
                  ELSE IF ~PasidEntryUsable(pe)
                  THEN key \notin after.host /\ ~\E x \in after.as : x.sid = e.sid /\ x.pasid = e.pasid
                  ELSE IF e.cache_filled /\ e.pe = pe THEN same
                  ELSE /\ key \in after.host
                       /\ [e EXCEPT !.cache_filled = TRUE, !.pe = pe] \in after.as]_vars

\* C30: after a global PASID-cache sync in which no bind, rebind or unbind
\* failed, the address spaces of every host-backed device are exactly those
\* of the present, valid entries of its PASID table, each caching the guest's
\* current entry.
C30_GlobalSyncMatchesGuest ==
    (last_op.op = "pasid_sync" /\ last_op.type = "VTD_PASID_CACHE_GLOBAL_INV" /\ ~last_op.error) =>
        \A sid \in HostDevices :
            {e \in vtd_pasid_as : e.sid = sid}
                = {[sid |-> sid, pasid |-> pasid, cache_filled |-> TRUE, pe |-> pasid_tbl[<<sid, pasid>>]] :
                      pasid \in {q \in Pasids : PasidEntryUsable(pasid_tbl[<<sid, q>>])}}

\* a global sync without failure has just created one binding, rebound a
\* second one and found nothing to drop
C30_Witness ==
    /\ last_op.op = "pasid_sync" /\ last_op.type = "VTD_PASID_CACHE_GLOBAL_INV" /\ ~last_op.error
    /\ Cardinality(vtd_pasid_as) = 2
    /\ Cardinality(last_op.pass1.as) = 1
    /\ \E e \in last_op.pass1.as : e.pe = PeFlt2 /\ pasid_tbl[<<e.sid, e.pasid>>] = PeFlt2

\* C31 as stated: whenever a bind, rebind or unbind has failed during a
\* PASID-cache sync, of a descriptor or of a device-selective context
\* invalidation, the error flag of the caller's pc_info is set when the sync
\* returns.
C31_FailureSetsErrorFlag ==
    (last_op.op \in {"pasid_sync", "pasid_devsi"} /\ last_op.failed) => last_op.error

\* C38 as stated: when a PASID-cache sync of any granularity returns, every
\* address space in s->vtd_pasid_as holds a filled cached PASID entry.
C38_EveryRecordFilled ==
    last_op.op \in {"pasid_sync", "pasid_devsi"} => \A e \in vtd_pasid_as : e.cache_filled

\* ------------------------------------------------------------------ properties: the locks

\* C32 as stated: every lookup in, insertion into and removal from s->iotlb
\* and s->p_iotlb and every use of a context-cache generation is made by a
\* thread that holds s->iommu_lock.
C32_CachesUsedUnderLock == ~lock_hist.unlocked_access

\* C33 as stated: no thread takes the big lock while it holds s->iommu_lock,
\* so no thread waits for the big lock holding s->iommu_lock while the
\* holder of the big lock waits for s->iommu_lock.
C33_OneLockOrder ==
    \A t \in Threads :
        /\ ~(pc[t] = "pt_bql_held" /\ iommu_lock = t)
        /\ ~\E u \in Threads \ {t} :
               /\ pc[t] = "pt_bql_lock" /\ iommu_lock = t /\ bql = u
               /\ pc[u] \in {"sl_lock", "fl_lock", "reg_lock"}

\* C35 as stated: no translation unlocks s->iommu_lock without holding it,
\* and none returns holding it.
C35_UnlockedOnceByHolder ==
    /\ ~lock_hist.bad_unlock
    /\ \A t \in Threads : pc[t] = "idle" => iommu_lock # t

====
